---------------------------- MODULE Spec2Model ----------------------------
(***************************************************************************)
(* Model of the recipe resolution pipeline of recipe-backend:              *)
(* recipe_scraper.parse_recipe_from_url and the functions it calls         *)
(* (fetch_url_content, the structured-data scan, schema_converter,         *)
(* extract_relevant_text_from_html, the LLM extraction callee).            *)
(*                                                                         *)
(* Python values are tagged records: None, strings (sequences of           *)
(* characters; an opaque constant is a one-token sequence), integers,      *)
(* lists and dicts (functions from key to value).                          *)
(***************************************************************************)
EXTENDS Integers, Sequences, FiniteSets, TLC

(* ------------------------------ bounds -------------------------------- *)
\* number of resolution requests one behaviour issues, one after the other
MaxRequests == 2

(* --------------------------- Python values ---------------------------- *)
PyNone    == [t |-> "none"]
PyStr(s)  == [t |-> "str",  v |-> s]
PyInt(n)  == [t |-> "int",  v |-> n]
PyList(s) == [t |-> "list", v |-> s]
PyDict(f) == [t |-> "dict", v |-> f]
PyBool(b) == [t |-> "bool", v |-> b]
EmptyDict == PyDict(<<>>)

\* bool(x): None, "", 0, [] and {} are falsy
Truthy(x) ==
    CASE x.t = "none" -> FALSE
      [] x.t = "str"  -> Len(x.v) > 0
      [] x.t = "int"  -> x.v /= 0
      [] x.t = "list" -> Len(x.v) > 0
      [] x.t = "dict" -> DOMAIN x.v /= {}
      [] x.t = "bool" -> x.v

HasKey(d, k) == k \in DOMAIN d.v
\* dict.get(k, default)
Get(d, k, default) == IF HasKey(d, k) THEN d.v[k] ELSE default
\* d[k] = val
Put(d, k, val) == PyDict([x \in (DOMAIN d.v) \cup {k} |-> IF x = k THEN val ELSE d.v[x]])

(* ------------------------------ strings ------------------------------- *)
Whitespace == {" ", "\t", "\n"}

RECURSIVE LStrip(_)
LStrip(s) == IF s /= <<>> /\ Head(s) \in Whitespace THEN LStrip(Tail(s)) ELSE s
RECURSIVE RStrip(_)
RStrip(s) == IF s /= <<>> /\ s[Len(s)] \in Whitespace
             THEN RStrip(SubSeq(s, 1, Len(s) - 1)) ELSE s
\* str.strip()
Strip(s) == RStrip(LStrip(s))

\* str.startswith(p)
StartsWith(s, p) == Len(s) >= Len(p) /\ SubSeq(s, 1, Len(p)) = p

\* str.split(sep) for a one-character separator
RECURSIVE Split(_, _)
Split(s, sep) ==
    IF \A i \in 1..Len(s) : s[i] /= sep THEN <<s>>
    ELSE LET i == CHOOSE j \in 1..Len(s) :
                      s[j] = sep /\ \A k \in 1..(j - 1) : s[k] /= sep
         IN <<SubSeq(s, 1, i - 1)>> \o Split(SubSeq(s, i + 1, Len(s)), sep)

Digits == <<"0", "1", "2", "3", "4", "5", "6", "7", "8", "9">>
IsDigit(c) == \E d \in 1..10 : Digits[d] = c
DigitVal(c) == (CHOOSE d \in 1..10 : Digits[d] = c) - 1

\* int("030") = 30
RECURSIVE ParseInt(_)
ParseInt(ds) == IF ds = <<>> THEN 0
                ELSE 10 * ParseInt(SubSeq(ds, 1, Len(ds) - 1)) + DigitVal(ds[Len(ds)])
\* str(30) = "30"
RECURSIVE IntToStr(_)
IntToStr(n) == IF n < 10 THEN <<Digits[n + 1]>>
               ELSE IntToStr(n \div 10) \o <<Digits[(n % 10) + 1]>>

\* str(x) of a value; containers and None print as one opaque token
PyStrOf(x) ==
    CASE x.t = "str"  -> x.v
      [] x.t = "int"  -> IntToStr(x.v)
      [] x.t = "none" -> <<"None">>
      [] x.t = "list" -> <<"[..]">>
      [] x.t = "dict" -> <<"{..}">>
      [] x.t = "bool" -> IF x.v THEN <<"True">> ELSE <<"False">>

(* ------------------------------ config.py ----------------------------- *)
DEFAULT_SERVINGS     == 2
DEFAULT_DIFFICULTY   == PyStr(<<"Medium">>)
DEFAULT_CATEGORY     == PyStr(<<"Uncategorised">>)
DEFAULT_RECIPE_TITLE == PyStr(<<"Untitled Recipe">>)

SOURCE_SCHEMA_ORG      == PyStr(<<"url_import_schema.org">>)
SOURCE_GEMINI_FALLBACK == PyStr(<<"url_scrape_gemini_fallback">>)

\* uuid.uuid4() of the n-th draw of a behaviour, as .hex and as str()
Uuid4Hex(n) == PyStr(<<"uuid4hex", ToString(n)>>)
Uuid4Str(n) == PyStr(<<"uuid4str", ToString(n)>>)

(* -------------------------- schema_converter.py ----------------------- *)
\* x or default
OrElse(x, default) == IF Truthy(x) THEN x ELSE default

\* index of the last character of the run of digits that starts at i
RECURSIVE DigitRunEnd(_, _)
DigitRunEnd(s, i) == IF i < Len(s) /\ IsDigit(s[i + 1]) THEN DigitRunEnd(s, i + 1) ELSE i

\* re.search(r"(\d+)<unit>", s).group(1), or <<>> when there is no match
SearchDigitsBefore(s, unit) ==
    LET starts == {i \in 1..Len(s) :
                      /\ IsDigit(s[i])
                      /\ (i = 1 \/ ~IsDigit(s[i - 1]))
                      /\ DigitRunEnd(s, i) < Len(s)
                      /\ s[DigitRunEnd(s, i) + 1] = unit}
    IN IF starts = {} THEN <<>>
       ELSE LET i == CHOOSE j \in starts : \A k \in starts : j <= k
            IN SubSeq(s, i, DigitRunEnd(s, i))

\* parse_schema_duration raises AttributeError on a truthy non-string
DurationRaises(d) == Truthy(d) /\ d.t /= "str"

parse_schema_duration(duration_str) ==
    IF ~Truthy(duration_str) \/ ~StartsWith(duration_str.v, <<"P", "T">>) THEN PyNone
    ELSE LET hours_match == SearchDigitsBefore(duration_str.v, "H")
             mins_match  == SearchDigitsBefore(duration_str.v, "M")
             hr  == IF hours_match /= <<>>
                    THEN <<IntToStr(ParseInt(hours_match)) \o <<" ", "h", "r">>>> ELSE <<>>
             min == IF mins_match /= <<>>
                    THEN <<IntToStr(ParseInt(mins_match)) \o <<" ", "m", "i", "n">>>> ELSE <<>>
             parts == hr \o min
         IN CASE Len(parts) = 0 -> PyNone
              [] Len(parts) = 1 -> PyStr(parts[1])
              [] Len(parts) = 2 -> PyStr(parts[1] \o <<" ">> \o parts[2])

\* the keys of a dict as strings, in one fixed order
RECURSIVE KeySeq(_)
KeySeq(ks) == IF ks = {} THEN <<>>
              ELSE LET k == CHOOSE x \in ks : TRUE
                   IN <<PyStr(<<k>>)>> \o KeySeq(ks \ {k})

\* the elements "for x in v" visits; None and numbers are not iterable
Iterable(v) == v.t \in {"list", "str", "dict"}
IterItems(v) ==
    CASE v.t = "list" -> v.v
      [] v.t = "str"  -> [i \in 1..Len(v.v) |-> PyStr(<<v.v[i]>>)]
      [] v.t = "dict" -> KeySeq(DOMAIN v.v)

Ingredients(data) ==
    LET src == IterItems(Get(data, "recipeIngredient", PyList(<<>>)))
    IN PyList([i \in 1..Len(src) |->
                 PyDict([quantity |-> PyNone, unit |-> PyNone,
                         item_name |-> PyStr(PyStrOf(src[i]))])])

RECURSIVE NonEmptyStripped(_)
NonEmptyStripped(parts) ==
    IF parts = <<>> THEN <<>>
    ELSE (IF Strip(Head(parts)) /= <<>> THEN <<PyStr(Strip(Head(parts)))>> ELSE <<>>)
         \o NonEmptyStripped(Tail(parts))

Instructions(data) ==
    LET raw_instr == Get(data, "recipeInstructions", PyNone)
    IN CASE raw_instr.t = "list" ->
              PyList([i \in 1..Len(raw_instr.v) |->
                        IF raw_instr.v[i].t = "dict"
                        THEN Get(raw_instr.v[i], "text", PyNone)
                        ELSE PyStr(PyStrOf(raw_instr.v[i]))])
         [] raw_instr.t = "str" -> PyList(NonEmptyStripped(Split(raw_instr.v, ".")))
         [] OTHER -> PyList(<<>>)

ImageUrl(data) ==
    LET image == Get(data, "image", PyNone)
    IN CASE image.t = "list" /\ Truthy(image) -> image.v[1]
         [] image.t = "str" -> image
         [] OTHER -> PyNone

Calories(data) ==
    LET nutrition == OrElse(Get(data, "nutrition", PyNone), EmptyDict)
    IN IF nutrition.t = "dict" THEN Get(nutrition, "calories", PyNone) ELSE PyNone

\* the statements of convert_schema_org_to_internal_recipe that raise
ConvertRaises(data) ==
    \/ data.t /= "dict"
    \/ DurationRaises(Get(data, "prepTime", PyNone))
    \/ DurationRaises(Get(data, "cookTime", PyNone))
    \/ DurationRaises(Get(data, "totalTime", PyNone))
    \/ ~Iterable(Get(data, "recipeIngredient", PyList(<<>>)))
    \/ (Truthy(ImageUrl(data)) /\ ImageUrl(data).t /= "str")

\* the record it returns otherwise; id is the uuid4 it draws
convert_schema_org_to_internal_recipe(data, source_url, id) ==
    PyDict([recipeId          |-> id,
            title             |-> OrElse(Get(data, "name", PyNone), DEFAULT_RECIPE_TITLE),
            servings          |-> OrElse(Get(data, "recipeYield", PyNone), PyInt(DEFAULT_SERVINGS)),
            category          |-> OrElse(Get(data, "recipeCategory", PyNone), DEFAULT_CATEGORY),
            difficulty        |-> OrElse(Get(data, "difficulty", PyNone), DEFAULT_DIFFICULTY),
            ingredients       |-> Ingredients(data),
            instructions      |-> Instructions(data),
            prepTime          |-> parse_schema_duration(Get(data, "prepTime", PyNone)),
            cookTime          |-> parse_schema_duration(Get(data, "cookTime", PyNone)),
            totalTime         |-> parse_schema_duration(Get(data, "totalTime", PyNone)),
            imageURL          |-> IF Truthy(ImageUrl(data))
                                  THEN PyStr(Strip(ImageUrl(data).v)) ELSE PyNone,
            calories          |-> IF Calories(data).t = "str"
                                  THEN PyStr(Strip(Calories(data).v)) ELSE PyNone,
            source            |-> SOURCE_SCHEMA_ORG,
            originalImportUrl |-> source_url,
            isPublic          |-> PyBool(FALSE),
            isSecretRecipe    |-> PyBool(FALSE),
            tipsAndVariations |-> PyNone])

(* ------------- recipe_scraper.py: structured-data scan ---------------- *)
RECIPE == PyStr(<<"Recipe">>)

EndsWith(s, p) == Len(s) >= Len(p) /\ SubSeq(s, Len(s) - Len(p) + 1, Len(s)) = p

\* the "@type" test of lines 140-141 and 145-146
IsRecipeType(item_type) ==
    \/ item_type.t = "str" /\ item_type = RECIPE
    \/ item_type.t = "list" /\ \E i \in 1..Len(item_type.v) : item_type.v[i] = RECIPE

Found(x)  == [out |-> "found", data |-> x]
NotFound  == [out |-> "none"]
ScanError == [out |-> "raise"]

\* lines 143-146: the members of one "@graph" list, in order
RECURSIVE ScanGraph(_)
ScanGraph(members) ==
    IF members = <<>> THEN NotFound
    ELSE LET graph_item == Head(members)
         IN IF graph_item.t /= "dict" THEN ScanError
            ELSE IF IsRecipeType(Get(graph_item, "@type", PyList(<<>>)))
                 THEN Found(graph_item)
                 ELSE ScanGraph(Tail(members))

\* lines 138-147: the JSON-LD entities, in document order
RECURSIVE ScanJsonLd(_)
ScanJsonLd(items) ==
    IF items = <<>> THEN NotFound
    ELSE LET item == Head(items)
         IN IF item.t /= "dict" THEN ScanError
            ELSE IF IsRecipeType(Get(item, "@type", PyList(<<>>))) THEN Found(item)
            ELSE IF HasKey(item, "@graph") /\ item.v["@graph"].t = "list"
                 THEN LET g == ScanGraph(item.v["@graph"].v)
                      IN IF g.out = "none" \/ (g.out = "found" /\ ~Truthy(g.data))
                         THEN ScanJsonLd(Tail(items)) ELSE g
                 ELSE ScanJsonLd(Tail(items))

\* lines 151-156: the microdata entities, in document order
RECURSIVE ScanMicrodata(_)
ScanMicrodata(items) ==
    IF items = <<>> THEN NotFound
    ELSE LET item == Head(items)
         IN IF item.t /= "dict" THEN ScanError
            ELSE LET item_type == Get(item, "type", PyStr(<<>>))
                 IN IF item_type.t = "str" /\ EndsWith(item_type.v, <<"/Recipe">>)
                    THEN Found(Get(item, "properties", EmptyDict))
                    ELSE ScanMicrodata(Tail(items))

\* lines 128-159 with a handler around the JSON-LD scan alone
LocateRecipeIsolated(html) ==
    IF html.extruct_raises THEN [data |-> PyNone, raised |-> TRUE]
    ELSE LET sd == html.structured
             ld == ScanJsonLd(sd.v["json-ld"].v)
             md == ScanMicrodata(sd.v["microdata"].v)
         IN IF ld.out = "found" THEN [data |-> ld.data, raised |-> FALSE]
            ELSE IF md.out = "found" THEN [data |-> md.data, raised |-> ld.out = "raise"]
            ELSE [data |-> PyNone, raised |-> ld.out = "raise" \/ md.out = "raise"]

\* lines 128-159 with lines 149-156 carried out before lines 137-147
LocateRecipeMicrodataFirst(html) ==
    IF html.extruct_raises THEN [data |-> PyNone, raised |-> TRUE]
    ELSE LET sd == html.structured
             md == IF HasKey(sd, "microdata") THEN ScanMicrodata(sd.v["microdata"].v)
                   ELSE NotFound
         IN IF md.out = "raise" THEN [data |-> PyNone, raised |-> TRUE]
            ELSE IF md.out = "found" /\ Truthy(md.data)
                 THEN [data |-> md.data, raised |-> FALSE]
            ELSE IF HasKey(sd, "json-ld")
                 THEN LET ld == ScanJsonLd(sd.v["json-ld"].v)
                      IN CASE ld.out = "raise" -> [data |-> PyNone, raised |-> TRUE]
                           [] ld.out = "found" -> [data |-> ld.data, raised |-> FALSE]
                           [] ld.out = "none"  ->
                                [data |-> IF md.out = "found" THEN md.data ELSE PyNone,
                                 raised |-> FALSE]
                 ELSE [data |-> IF md.out = "found" THEN md.data ELSE PyNone,
                       raised |-> FALSE]

\* lines 128-159: recipe_schema_data after the try block; one handler covers
\* extruct.extract and both scans and resets the candidate to None
LocateRecipe(html) ==
    IF html.extruct_raises THEN [data |-> PyNone, raised |-> TRUE]
    ELSE LET sd == html.structured
             ld == IF HasKey(sd, "json-ld") THEN ScanJsonLd(sd.v["json-ld"].v) ELSE NotFound
         IN IF ld.out = "raise" THEN [data |-> PyNone, raised |-> TRUE]
            ELSE IF ld.out = "found" /\ Truthy(ld.data)
                 THEN [data |-> ld.data, raised |-> FALSE]
            ELSE IF HasKey(sd, "microdata")
                 THEN LET md == ScanMicrodata(sd.v["microdata"].v)
                      IN CASE md.out = "raise" -> [data |-> PyNone, raised |-> TRUE]
                           [] md.out = "found" -> [data |-> md.data, raised |-> FALSE]
                           [] md.out = "none"  -> [data |-> PyNone, raised |-> FALSE]
                 ELSE [data |-> PyNone, raised |-> FALSE]

(* -------- recipe_scraper.py: extract_relevant_text_from_html ---------- *)
\* the two characters backslash, n that lines 87, 94 and 96 pass as separator
BSN == "\\n"

max_length_for_llm == 75000

\* the names soup.find_all() is given on lines 64-71; find_all compares them
\* with tag names
UnwantedNames ==
    {"script", "style", "nav", "footer", "header", "aside", "form",
     "button", "iframe", "noscript", "link", "meta", "head",
     "figure", "figcaption", "#comments", ".comments-area",
     ".sidebar", "#sidebar", ".related-posts", ".related-articles",
     ".social-share", ".share-buttons", ".advertisement", ".ad",
     "[class*=\"ad-\"]", ".site-header", ".site-footer", ".main-navigation"}

\* number of entries of main_content_selectors (lines 74-79)
NumSelectors == 12

\* lines 64-72: the elements left after decompose()
RECURSIVE Keep(_)
Keep(els) ==
    IF els = <<>> THEN <<>>
    ELSE (IF Head(els).tag \in UnwantedNames THEN <<>> ELSE <<Head(els)>>) \o Keep(Tail(els))

\* el.get_text(separator, strip=True) of an element holding one text node
GetText(el) == Strip(el.text)

RECURSIVE Join(_, _)
Join(texts, sep) ==
    IF texts = <<>> THEN <<>>
    ELSE IF Len(texts) = 1 THEN texts[1]
    ELSE texts[1] \o sep \o Join(Tail(texts), sep)

RECURSIVE NonEmpty(_)
NonEmpty(texts) ==
    IF texts = <<>> THEN <<>>
    ELSE (IF Head(texts) = <<>> THEN <<>> ELSE <<Head(texts)>>) \o NonEmpty(Tail(texts))

RECURSIVE Matching(_, _)
Matching(els, selector) ==
    IF els = <<>> THEN <<>>
    ELSE (IF selector \in Head(els).selectors THEN <<Head(els)>> ELSE <<>>)
         \o Matching(Tail(els), selector)

\* lines 81-94: the texts of the first selector that matches, else the body text
RECURSIVE SelectTexts(_, _, _)
SelectTexts(els, selector, has_body) ==
    IF selector > NumSelectors
    THEN IF has_body
         THEN <<Join(NonEmpty([i \in 1..Len(els) |-> GetText(els[i])]), <<BSN>>)>>
         ELSE <<>>
    ELSE LET elements == Matching(els, selector)
         IN IF elements /= <<>>
            THEN [i \in 1..Len(elements) |-> GetText(elements[i])]
            ELSE SelectTexts(els, selector + 1, has_body)

RECURSIVE SkipWs(_, _)
SkipWs(s, i) == IF i <= Len(s) /\ s[i] \in Whitespace THEN SkipWs(s, i + 1) ELSE i

\* greedy match of (\s*\\n\s*)* at i: <<index after the match, repetitions>>
RECURSIVE BreakUnits(_, _, _)
BreakUnits(s, i, n) ==
    LET j == SkipWs(s, i)
    IN IF j <= Len(s) /\ s[j] = BSN THEN BreakUnits(s, SkipWs(s, j + 1), n + 1)
       ELSE <<i, n>>

\* re.sub(r'(\s*\\n\s*){3,}', '\\n\\n', s): the template yields two newlines
RECURSIVE CollapseBreaks(_, _)
CollapseBreaks(s, i) ==
    IF i > Len(s) THEN <<>>
    ELSE LET m == BreakUnits(s, i, 0)
         IN IF m[2] >= 3 THEN <<"\n", "\n">> \o CollapseBreaks(s, m[1])
            ELSE <<s[i]>> \o CollapseBreaks(s, i + 1)

\* re.sub(r'\s{2,}', ' ', s)
RECURSIVE CollapseSpaces(_, _)
CollapseSpaces(s, i) ==
    IF i > Len(s) THEN <<>>
    ELSE LET j == SkipWs(s, i)
         IN IF j - i >= 2 THEN <<" ">> \o CollapseSpaces(s, j)
            ELSE <<s[i]>> \o CollapseSpaces(s, i + 1)

extract_relevant_text_from_html(html) ==
    IF html.empty THEN <<>>
    ELSE LET content_texts == SelectTexts(Keep(html.elements), 1, html.has_body)
             full_text     == Join(content_texts, <<BSN, BSN>>)
             cleaned_text  == CollapseSpaces(Strip(CollapseBreaks(full_text, 1)), 1)
         IN IF Len(cleaned_text) > max_length_for_llm
            THEN SubSeq(cleaned_text, 1, max_length_for_llm) ELSE cleaned_text

(* ------------------------- inputs of the model ------------------------ *)
HTTP  == <<"h", "t", "t", "p", ":", "/", "/">>
HTTPS == <<"h", "t", "t", "p", "s", ":", "/", "/">>

Urls ==
    { PyNone,
      PyStr(<<>>),
      PyStr(HTTP \o <<"a">>),
      PyStr(HTTPS \o <<"a">>),
      PyStr(<<"f", "t", "p", ":", "/", "/", "a">>),
      PyStr(<<"h", "t", "t", "p", ":", "/", "a">>),
      PyStr(<<"H", "T", "T", "P", ":", "/", "/", "a">>),
      PyStr(<<" ">> \o HTTP \o <<"a">>) }

UserInstructions ==
    { PyNone, PyStr(<<>>), PyStr(<<" ">>), PyStr(<<"v", "e", "g">>),
      PyStr(<<" ", "v", "e", "g", " ">>) }

\* structured-data candidates
GoodRecipe ==
    PyDict(("@type" :> RECIPE) @@
           [name |-> PyStr(<<"Soup">>),
            prepTime |-> PyStr(<<"P", "T", "1", "H", "3", "0", "M">>),
            recipeIngredient |-> PyList(<<PyStr(<<"salt">>), PyStr(<<"salt">>)>>),
            recipeInstructions |-> PyList(<<PyDict([text |-> PyStr(<<"Boil">>)]), PyStr(<<"Serve">>)>>),
            image |-> PyStr(<<" ", "img">>)])
MinimalRecipe == PyDict(("@type" :> PyList(<<PyStr(<<"Thing">>), RECIPE>>)))
BadDurationRecipe == PyDict(("@type" :> RECIPE) @@ [prepTime |-> PyInt(30)])
NullIngredientsRecipe == PyDict(("@type" :> RECIPE) @@ [recipeIngredient |-> PyNone])
ImageObjectRecipe ==
    PyDict(("@type" :> RECIPE) @@ [image |-> PyList(<<PyDict([url |-> PyStr(<<"img">>)])>>)])
WebSite == PyDict(("@type" :> PyStr(<<"WebSite">>)))
Graph(members) == PyDict(("@graph" :> PyList(members)))
Micro(type, props) == PyDict([type |-> PyStr(type), properties |-> props])
MicroRecipeType == <<"http://schema.org", "/Recipe">>

Structured(jsonld, microdata) ==
    PyDict(("json-ld" :> PyList(jsonld)) @@ ("microdata" :> PyList(microdata)))

\* page elements: tag name, class, the main-content selectors it matches, text
El(tag, cls, sels, text) == [tag |-> tag, cls |-> cls, selectors |-> sels, text |-> text]
Article   == El("article", "recipe-card", {2}, <<"m", "i", "x", " ", " ", "i", "t">>)
Paragraph == El("p", "", {}, <<"a">>)
Script    == El("script", "", {}, <<"j", "s">>)
Blank     == El("p", "", {}, <<" ", "\n">>)
EmptyMain == El("main", "", {9}, <<>>)

Page(structured, raises, elements) ==
    [empty |-> FALSE, extruct_raises |-> raises, structured |-> structured,
     elements |-> elements, has_body |-> TRUE]
EmptyPage ==
    [empty |-> TRUE, extruct_raises |-> FALSE, structured |-> Structured(<<>>, <<>>),
     elements |-> <<>>, has_body |-> FALSE]

Pages ==
    { EmptyPage,
      Page(Structured(<<GoodRecipe>>, <<>>), FALSE, <<Article>>),
      Page(Structured(<<WebSite, Graph(<<WebSite, MinimalRecipe>>)>>, <<>>), FALSE, <<Paragraph>>),
      Page(Structured(<<BadDurationRecipe>>, <<>>), FALSE, <<Script, Paragraph>>),
      Page(Structured(<<NullIngredientsRecipe>>, <<>>), FALSE, <<Script>>),
      Page(Structured(<<ImageObjectRecipe>>, <<>>), FALSE, <<Article, Paragraph>>),
      Page(Structured(<<>>, <<>>), FALSE, <<Paragraph>>),
      Page(Structured(<<>>, <<>>), FALSE, <<Blank>>),
      Page(Structured(<<>>, <<>>), TRUE, <<Article>>),
      Page(Structured(<<PyStr(<<"x">>)>>, <<Micro(MicroRecipeType, GoodRecipe)>>), FALSE, <<Paragraph>>),
      Page(Structured(<<WebSite>>, <<Micro(MicroRecipeType, PyDict([name |-> PyStr(<<>>)]))>>), FALSE, <<Blank>>),
      Page(Structured(<<>>, <<Micro(MicroRecipeType, EmptyDict)>>), FALSE, <<Paragraph>>),
      Page(Structured(<<>>, <<>>), FALSE, <<EmptyMain, EmptyMain>>),
      Page(Structured(<<>>, <<>>), FALSE, <<EmptyMain, EmptyMain, EmptyMain>>) }

\* what requests.get / raise_for_status do for one request
Responses ==
    [kind : {"ok"}, page : Pages]
      \cup { [kind |-> "Timeout"], [kind |-> "HTTPError"], [kind |-> "RequestException"] }

\* what the generative model does for one call: a service failure raising
\* exc, text the JSON repair rejects, or text that parses to json
GeminiDicts ==
    { PyDict([title |-> PyStr(<<"Stew">>)]),
      PyDict([title |-> PyStr(<<"Stew">>), recipeId |-> PyStr(<<"llm-id">>),
              source |-> PyStr(<<"llm-source">>),
              originalImportUrl |-> PyStr(<<"llm-url">>)]),
      PyDict([recipeId |-> PyStr(<<>>)]),
      PyDict([recipeId |-> PyNone,
              userModificationInstructions |-> PyStr(<<"llm-note">>)]) }
GeminiJson ==
    GeminiDicts \cup { EmptyDict, PyNone, PyList(<<>>),
                       PyList(<<PyDict([title |-> PyStr(<<"Stew">>)])>>) }
GeminiReplies ==
    [kind : {"failure"}, exc : {"ConnectionError", "ValueError", "RuntimeError"}]
      \cup { [kind |-> "text", repairable |-> FALSE] }
      \cup [kind : {"text"}, repairable : {TRUE}, json : GeminiJson]

(* ------------------- recipe_scraper.py: the callees ------------------- *)
Returned(x)  == [raised |-> FALSE, value |-> x]
Raised(e, m) == [raised |-> TRUE, exc |-> e, msg |-> m]

\* fetch_url_content without raise_for_status(): an error page is content
fetch_url_content_NoStatusCheck(response) ==
    CASE response.kind = "ok"        -> Returned(response.page)
      [] response.kind = "Timeout"   -> Raised("ConnectionError", "timed out")
      [] response.kind = "HTTPError" -> Returned(EmptyPage)
      [] response.kind = "RequestException" -> Raised("ConnectionError", "failed to retrieve")

\* lines 20-53: every requests exception becomes ConnectionError
fetch_url_content(response) ==
    CASE response.kind = "ok"        -> Returned(response.page)
      [] response.kind = "Timeout"   -> Raised("ConnectionError", "timed out")
      [] response.kind = "HTTPError" -> Raised("ConnectionError", "responded with status")
      [] response.kind = "RequestException" -> Raised("ConnectionError", "failed to retrieve")

\* the LLM extraction callee of lines 180-186
extract_recipe_from_text_content_for_url_scrape(reply) ==
    IF reply.kind = "failure" THEN Raised(reply.exc, "service error")
    ELSE IF ~reply.repairable THEN Raised("ValueError", "Invalid JSON format after cleaning")
    ELSE Returned(reply.json)

\* line 119 without the scheme test
ValidUrlAnyScheme(u) == Truthy(u)

\* line 119
ValidUrl(u) ==
    Truthy(u) /\ (StartsWith(u.v, HTTP) \/ StartsWith(u.v, HTTPS))

\* lines 119-120: where the coroutine goes after the scheme test
AfterValidate(u) ==
    IF ValidUrl(u) THEN [next |-> "fetch"]
    ELSE [next |-> "raised", error |-> Raised("ValueError", "Invalid URL provided")]

\* lines 122-126 with a failed fetch tried again
AfterFetchRetry(r) ==
    IF r.raised THEN [next |-> "fetch"]
    ELSE [next |-> "locate", content |-> r.value]

\* lines 122-126: a ConnectionError of the fetch is re-raised, nothing is retried
AfterFetch(r) ==
    IF r.raised THEN [next |-> "raised", error |-> r]
    ELSE [next |-> "locate", content |-> r.value]

\* line 161
AfterLocate(found) == IF Truthy(found.data) THEN "convert" ELSE "extract"

\* lines 164-165 without .strip()
AttachInstructionsUnstripped(rec, instructions) ==
    IF Truthy(instructions) /\ Truthy(rec)
    THEN Put(rec, "userModificationInstructions", instructions)
    ELSE rec

\* lines 164-165
AttachInstructions(rec, instructions) ==
    IF Truthy(instructions) /\ Truthy(rec)
    THEN Put(rec, "userModificationInstructions", PyStr(Strip(instructions.v)))
    ELSE rec

\* lines 189-194 with the uuid4 of line 190 written into the source tag too
PostProcessStampsSource(rec, u, instructions, id) ==
    LET r1 == IF ~HasKey(rec, "recipeId") \/ ~Truthy(Get(rec, "recipeId", PyNone))
              THEN Put(rec, "recipeId", id) ELSE rec
        r2 == Put(r1, "source", id)
        r3 == Put(r2, "originalImportUrl", u)
    IN IF Truthy(instructions) /\ ~HasKey(r3, "userModificationInstructions")
       THEN Put(r3, "userModificationInstructions", PyStr(Strip(instructions.v)))
       ELSE r3

\* lines 189-194 with line 189 testing only for the key
PostProcessKeepsEmptyId(rec, u, instructions, id) ==
    LET r1 == IF ~HasKey(rec, "recipeId") THEN Put(rec, "recipeId", id) ELSE rec
        r2 == Put(r1, "source", SOURCE_GEMINI_FALLBACK)
        r3 == Put(r2, "originalImportUrl", u)
    IN IF Truthy(instructions) /\ ~HasKey(r3, "userModificationInstructions")
       THEN Put(r3, "userModificationInstructions", PyStr(Strip(instructions.v)))
       ELSE r3

\* lines 189-194
PostProcess(rec, u, instructions, id) ==
    LET r1 == IF ~HasKey(rec, "recipeId") \/ ~Truthy(Get(rec, "recipeId", PyNone))
              THEN Put(rec, "recipeId", id) ELSE rec
        r2 == Put(r1, "source", SOURCE_GEMINI_FALLBACK)
        r3 == Put(r2, "originalImportUrl", u)
    IN IF Truthy(instructions) /\ ~HasKey(r3, "userModificationInstructions")
       THEN Put(r3, "userModificationInstructions", PyStr(Strip(instructions.v)))
       ELSE r3

\* lines 162-168 without the handler of line 167
TryConvertPropagates(data, u, instructions, id) ==
    IF ConvertRaises(data)
    THEN [next |-> "raised", error |-> Raised("AttributeError", "conversion failed")]
    ELSE [next |-> "returned",
          value |-> AttachInstructions(
                        convert_schema_org_to_internal_recipe(data, u, id), instructions)]

\* lines 162-168 without the return of line 166
TryConvertNoReturn(data, u, instructions, id) == [next |-> "extract"]

\* lines 162-168: the converted record is returned, a raising conversion is
\* logged and control falls through to the scrape
TryConvert(data, u, instructions, id) ==
    IF ConvertRaises(data) THEN [next |-> "extract"]
    ELSE [next |-> "returned",
          value |-> AttachInstructions(
                        convert_schema_org_to_internal_recipe(data, u, id), instructions)]

\* lines 175-177 without the emptiness test
AfterExtractNoCheck(text) == [next |-> "gemini"]

\* lines 175-177
AfterExtract(text) ==
    IF Strip(text) = <<>>
    THEN [next |-> "raised", error |-> Raised("ValueError", "Could not extract meaningful text")]
    ELSE [next |-> "gemini"]

\* line 188 accepting whatever the callee returned
AnyGeminiRecipe(x) == x.t = "dict"

\* line 188
ValidGeminiRecipe(x) == Truthy(x) /\ x.t = "dict"

\* lines 179-206: what parse_recipe_from_url does with the callee's outcome
HandleGemini(outcome, u, instructions, id) ==
    IF outcome.raised
    THEN IF outcome.exc \in {"ConnectionError", "ValueError"}
         THEN Raised(outcome.exc, outcome.msg)
         ELSE Raised("ConnectionAbortedError", "Unexpected AI error during URL scrape")
    ELSE IF ValidGeminiRecipe(outcome.value)
         THEN Returned(PostProcess(outcome.value, u, instructions, id))
         ELSE Raised("ValueError", "failed to produce a valid recipe")

(* ------------- parse_recipe_from_url as a state machine --------------- *)
VARIABLES
    pc,                  \* position of the coroutine
    url,                 \* argument url
    user_instructions,   \* argument user_instructions
    response,            \* what the HTTP request of line 34 did
    html_content,        \* line 123
    recipe_schema_data,  \* lines 128-159
    page_text_content,   \* line 174
    gemini_outcome,      \* what the awaited callee of line 180 did
    result,              \* the record returned, PyNone while there is none
    error,               \* the exception raised to the caller
    calls,               \* how often each stage ran in this request
    locate_raised,       \* the handler of line 157 ran
    convert_raised,      \* the handler of line 167 ran
    uuids,               \* uuid4 values drawn so far
    requests             \* requests started so far

\* the variables of one parse_recipe_from_url call
main_vars == <<pc, url, user_instructions, response, html_content, recipe_schema_data,
               page_text_content, gemini_outcome, result, error, calls,
               locate_raised, convert_raised, uuids, requests>>

\* one application of a pure function of schema_converter.py or utils.py
VARIABLES
    fn,                  \* the function applied, "none" before the call
    arg,                 \* its argument
    out                  \* what it returned or raised, and what it printed

pure_vars == <<fn, arg, out>>

\* two parse_recipe_from_url coroutines started by one caller
VARIABLES
    co,                  \* the frame of each coroutine: its locals and position
    loop_owner,          \* the coroutine the event loop is running, 0 for none
    mode                 \* how the caller runs them: one event loop, or a loop each

pair_vars == <<co, loop_owner, mode>>

\* the calls of process_url_async and process_image_async made in one process
VARIABLES
    config_module,       \* which attributes the config module defines
    gemini_configured,   \* the global _gemini_configured of gemini_processors.py
    frame,               \* the call in progress: arguments, locals and position
    returned,            \* what the last call returned or raised
    proc_calls           \* calls started so far

proc_vars == <<config_module, gemini_configured, frame, returned, proc_calls>>

vars == <<main_vars, pure_vars, pair_vars, proc_vars>>

NoPage    == [empty |-> TRUE, absent |-> TRUE]
NoOutcome == [raised |-> FALSE, absent |-> TRUE]
NoError   == [raised |-> FALSE]
NoCalls   == [fetch |-> 0, locate |-> 0, convert |-> 0, extract |-> 0, gemini |-> 0]

Count(stage) == [calls EXCEPT ![stage] = @ + 1]

MainInit ==
    /\ pc = "idle"
    /\ url = PyNone
    /\ user_instructions = PyNone
    /\ response = "none"
    /\ html_content = NoPage
    /\ recipe_schema_data = PyNone
    /\ page_text_content = <<>>
    /\ gemini_outcome = NoOutcome
    /\ result = PyNone
    /\ error = NoError
    /\ calls = NoCalls
    /\ locate_raised = FALSE
    /\ convert_raised = FALSE
    /\ uuids = 0
    /\ requests = 0

\* no pure function is being applied
PureIdle == fn = "none" /\ arg = PyNone /\ out = NoOutcome

\* no pair of coroutines was started
PairIdle == co = <<>> /\ loop_owner = 0 /\ mode = "none"

\* no call of gemini_processors.py was made: config.py as it stands, the
\* flag as line 18 sets it
IdleFrame == [fn |-> "none", pc |-> "idle"]
ProcIdle ==
    /\ config_module = "src"
    /\ gemini_configured = FALSE
    /\ frame = IdleFrame
    /\ returned = NoOutcome
    /\ proc_calls = 0

Init == MainInit /\ PureIdle /\ PairIdle /\ ProcIdle

\* a caller invokes parse_recipe_from_url(u, model, instructions, prefs)
Call ==
    /\ pc = "idle"
    /\ requests < MaxRequests
    /\ \E u \in Urls, i \in UserInstructions :
          /\ url' = u
          /\ user_instructions' = i
    /\ pc' = "validate"
    /\ response' = "none"
    /\ html_content' = NoPage
    /\ recipe_schema_data' = PyNone
    /\ page_text_content' = <<>>
    /\ gemini_outcome' = NoOutcome
    /\ result' = PyNone
    /\ error' = NoError
    /\ calls' = NoCalls
    /\ locate_raised' = FALSE
    /\ convert_raised' = FALSE
    /\ requests' = requests + 1
    /\ UNCHANGED uuids
    /\ UNCHANGED <<pure_vars, pair_vars, proc_vars>>

\* lines 119-120
Validate ==
    /\ pc = "validate"
    /\ LET a == AfterValidate(url)
       IN /\ pc' = a.next
          /\ error' = IF a.next = "raised" THEN a.error ELSE error
    /\ UNCHANGED <<url, user_instructions, response, html_content, recipe_schema_data,
                   page_text_content, gemini_outcome, result, calls,
                   locate_raised, convert_raised, uuids, requests>>
    /\ UNCHANGED <<pure_vars, pair_vars, proc_vars>>

\* lines 122-126
Fetch ==
    /\ pc = "fetch"
    /\ \E resp \in Responses :
          LET a == AfterFetch(fetch_url_content(resp))
          IN /\ response' = resp.kind
             /\ pc' = a.next
             /\ error' = IF a.next = "raised" THEN a.error ELSE error
             /\ html_content' = IF a.next = "locate" THEN a.content ELSE html_content
    /\ calls' = Count("fetch")
    /\ UNCHANGED <<url, user_instructions, recipe_schema_data, page_text_content,
                   gemini_outcome, result, locate_raised, convert_raised,
                   uuids, requests>>
    /\ UNCHANGED <<pure_vars, pair_vars, proc_vars>>

\* lines 128-161
Locate ==
    /\ pc = "locate"
    /\ LET found == LocateRecipe(html_content)
       IN /\ recipe_schema_data' = found.data
          /\ locate_raised' = found.raised
          /\ pc' = AfterLocate(found)
    /\ calls' = Count("locate")
    /\ UNCHANGED <<url, user_instructions, response, html_content, page_text_content,
                   gemini_outcome, result, error, convert_raised, uuids, requests>>
    /\ UNCHANGED <<pure_vars, pair_vars, proc_vars>>

\* lines 162-168
Convert ==
    /\ pc = "convert"
    /\ LET a == TryConvert(recipe_schema_data, url, user_instructions, Uuid4Hex(uuids + 1))
       IN /\ pc' = a.next
          /\ convert_raised' = ConvertRaises(recipe_schema_data)
          /\ result' = IF a.next = "returned" THEN a.value ELSE result
          /\ error' = IF a.next = "raised" THEN a.error ELSE error
          /\ uuids' = IF a.next = "returned" THEN uuids + 1 ELSE uuids
    /\ calls' = Count("convert")
    /\ UNCHANGED <<url, user_instructions, response, html_content, recipe_schema_data,
                   page_text_content, gemini_outcome, locate_raised, requests>>
    /\ UNCHANGED <<pure_vars, pair_vars, proc_vars>>

\* lines 174-177
ExtractText ==
    /\ pc = "extract"
    /\ page_text_content' = extract_relevant_text_from_html(html_content)
    /\ LET a == AfterExtract(page_text_content')
       IN /\ pc' = a.next
          /\ error' = IF a.next = "raised" THEN a.error ELSE error
    /\ calls' = Count("extract")
    /\ UNCHANGED <<url, user_instructions, response, html_content, recipe_schema_data,
                   gemini_outcome, result, locate_raised, convert_raised,
                   uuids, requests>>
    /\ UNCHANGED <<pure_vars, pair_vars, proc_vars>>

\* line 180: the callee is started and the coroutine suspends
CallGemini ==
    /\ pc = "gemini"
    /\ pc' = "awaiting"
    /\ calls' = Count("gemini")
    /\ UNCHANGED <<url, user_instructions, response, html_content, recipe_schema_data,
                   page_text_content, gemini_outcome, result, error,
                   locate_raised, convert_raised, uuids, requests>>
    /\ UNCHANGED <<pure_vars, pair_vars, proc_vars>>

\* lines 180-206: the callee finishes and the coroutine resumes
ResumeGemini ==
    /\ pc = "awaiting"
    /\ \E reply \in GeminiReplies :
          LET outcome == extract_recipe_from_text_content_for_url_scrape(reply)
              fresh   == /\ ~outcome.raised
                         /\ ValidGeminiRecipe(outcome.value)
                         /\ ~Truthy(Get(outcome.value, "recipeId", PyNone))
              r       == HandleGemini(outcome, url, user_instructions, Uuid4Str(uuids + 1))
          IN /\ gemini_outcome' = outcome
             /\ uuids' = IF fresh THEN uuids + 1 ELSE uuids
             /\ IF r.raised
                THEN pc' = "raised" /\ error' = r /\ UNCHANGED result
                ELSE pc' = "returned" /\ result' = r.value /\ UNCHANGED error
    /\ UNCHANGED <<url, user_instructions, response, html_content, recipe_schema_data,
                   page_text_content, calls, locate_raised, convert_raised, requests>>
    /\ UNCHANGED <<pure_vars, pair_vars, proc_vars>>

\* the caller takes the record or the exception
Finish ==
    /\ pc \in {"returned", "raised"}
    /\ pc' = "idle"
    /\ UNCHANGED <<url, user_instructions, response, html_content, recipe_schema_data,
                   page_text_content, gemini_outcome, result, error, calls,
                   locate_raised, convert_raised, uuids, requests>>
    /\ UNCHANGED <<pure_vars, pair_vars, proc_vars>>

Next ==
    \/ Call
    \/ Validate
    \/ Fetch
    \/ Locate
    \/ Convert
    \/ ExtractText
    \/ CallGemini
    \/ ResumeGemini
    \/ Finish

Spec == Init /\ [][Next]_vars

(* ------------------------------ properties ---------------------------- *)
\* the request has ended: a record was returned or an exception raised
Finished == requests > 0 /\ pc \in {"returned", "raised", "idle"}
ReturnedRecord == Finished /\ result /= PyNone
RaisedError == Finished /\ error.raised
\* the awaited callee returned a value / raised
GeminiReturned == "value" \in DOMAIN gemini_outcome
GeminiRaised == gemini_outcome.raised
\* the scheme prefixes of the specification, character by character
HttpUrl(u) ==
    /\ u.t = "str"
    /\ \/ Len(u.v) >= 7 /\ [i \in 1..7 |-> u.v[i]] = <<"h", "t", "t", "p", ":", "/", "/">>
       \/ Len(u.v) >= 8 /\ [i \in 1..8 |-> u.v[i]] = <<"h", "t", "t", "p", "s", ":", "/", "/">>
FetchFailures == {"Timeout", "HTTPError", "RequestException"}

\* C1: when a located candidate's conversion raises, the request goes on:
\* the text extractor runs, with a non-empty excerpt the LLM callee is called,
\* and when that returns a non-empty mapping the request returns a record
\* whose source is 'url_scrape_gemini_fallback'.
C1_ConversionFailureFallsBack ==
    convert_raised =>
      /\ pc /= "extract" => calls.extract = 1
      /\ (pc \notin {"extract", "gemini"} /\ Strip(page_text_content) /= <<>>)
            => calls.gemini = 1
      /\ (GeminiReturned /\ Truthy(gemini_outcome.value) /\ gemini_outcome.value.t = "dict")
            => /\ ReturnedRecord
               /\ ~error.raised
               /\ result.v["source"] = PyStr(<<"url_scrape_gemini_fallback">>)

C1_Witness ==
    /\ convert_raised
    /\ pc = "returned"
    /\ calls.gemini = 1
    /\ result.v["source"] = PyStr(<<"url_scrape_gemini_fallback">>)

C3_FetchFailureIsTerminal ==
    response \in FetchFailures =>
      /\ RaisedError
      /\ error.exc = "ConnectionError"
      /\ result = PyNone
      /\ calls.locate = 0 /\ calls.convert = 0
      /\ calls.extract = 0 /\ calls.gemini = 0

C3_Witness == pc = "raised" /\ response = "HTTPError" /\ calls.fetch = 1

\* C4: a url that is None, empty or without the prefix http:// or https://
\* raises ValueError before any fetch; a url with such a prefix reaches the
\* fetch.
C4_SchemeValidation ==
    (requests > 0 /\ pc /= "validate") =>
      IF HttpUrl(url)
      THEN pc = "fetch" \/ calls.fetch >= 1
      ELSE /\ RaisedError
           /\ error = Raised("ValueError", "Invalid URL provided")
           /\ calls.fetch = 0
           /\ response = "none"

C4_Witness ==
    /\ pc = "raised"
    /\ url = PyStr(<<"f", "t", "p", ":", "/", "/", "a">>)
    /\ calls.fetch = 0

\* C5: when the excerpt of extract_relevant_text_from_html is empty or only
\* whitespace, the request raises the no-content ValueError and the LLM
\* callee is never called.
C5_EmptyExcerptSkipsLlm ==
    (calls.extract = 1 /\ \A i \in 1..Len(page_text_content) :
                              page_text_content[i] \in {" ", "\t", "\n"}) =>
      /\ RaisedError
      /\ error = Raised("ValueError", "Could not extract meaningful text")
      /\ calls.gemini = 0
      /\ gemini_outcome = NoOutcome
      /\ result = PyNone

C5_Witness ==
    /\ pc = "raised"
    /\ calls.extract = 1
    /\ convert_raised
    /\ page_text_content = <<>>

\* C6: one request fetches at most once and calls the LLM at most once, and
\* a request whose url passes the scheme test fetches exactly once.
C6_OneFetchAtMostOneLlmCall ==
    /\ calls.fetch <= 1
    /\ calls.gemini <= 1
    /\ (Finished /\ HttpUrl(url)) => calls.fetch = 1

C6_Witness == pc = "raised" /\ calls.fetch = 1 /\ calls.gemini = 1

\* C7: an exception of extruct.extract or of the scan never leaves
\* parse_recipe_from_url: the candidate is None, the converter is skipped
\* and the request goes on with the text extractor.
C7_ScanErrorsSwallowed ==
    locate_raised =>
      /\ recipe_schema_data = PyNone
      /\ calls.convert = 0
      /\ pc = "extract" \/ calls.extract = 1
      /\ error.raised => calls.extract = 1

C7_Witness == locate_raised /\ pc = "awaiting" /\ ~html_content.extruct_raises

\* C8: on the LLM path a failure of the LLM callee, text the JSON repair
\* rejects, and a parsed result that is empty or not a mapping each end the
\* request with an exception and without a record: the callee's
\* ConnectionError or ValueError as raised, any other exception as
\* ConnectionAbortedError.
C8_LlmFailuresRaise ==
    /\ GeminiRaised =>
         /\ RaisedError
         /\ result = PyNone
         /\ IF gemini_outcome.msg = "Invalid JSON format after cleaning"
            THEN error = Raised("ValueError", "Invalid JSON format after cleaning")
            ELSE \/ error = gemini_outcome
                 \/ error.exc = "ConnectionAbortedError"
    /\ (GeminiReturned /\ ~(Truthy(gemini_outcome.value) /\ gemini_outcome.value.t = "dict"))
         => /\ RaisedError
            /\ error.exc = "ValueError"
            /\ result = PyNone

C8_Witness ==
    /\ pc = "raised"
    /\ GeminiRaised
    /\ error.exc = "ConnectionAbortedError"

\* C9: a record returned on the LLM path has a non-empty recipeId (the
\* LLM's when that is non-empty, else a fresh uuid4), source
\* 'url_scrape_gemini_fallback' and originalImportUrl equal to the url.
C9_LlmRecordProvenance ==
    (ReturnedRecord /\ calls.gemini = 1) =>
      LET given == IF "recipeId" \in DOMAIN gemini_outcome.value.v
                   THEN gemini_outcome.value.v["recipeId"] ELSE PyNone
      IN /\ "recipeId" \in DOMAIN result.v
         /\ result.v["recipeId"] \notin {PyNone, PyStr(<<>>)}
         /\ result.v["recipeId"] =
               (IF given \in {PyNone, PyStr(<<>>)} THEN Uuid4Str(uuids) ELSE given)
         /\ result.v["source"] = PyStr(<<"url_scrape_gemini_fallback">>)
         /\ result.v["originalImportUrl"] = url

C9_Witness ==
    /\ pc = "returned"
    /\ calls.gemini = 1
    /\ "source" \in DOMAIN gemini_outcome.value.v
    /\ result.v["source"] /= gemini_outcome.value.v["source"]
    /\ result.v["recipeId"] = PyStr(<<"llm-id">>)

\* non-empty instructions were passed
Supplied == user_instructions.t = "str" /\ user_instructions.v /= <<>>
Carried(expected) ==
    IF calls.gemini = 0
    THEN IF Supplied
         THEN /\ "userModificationInstructions" \in DOMAIN result.v
              /\ result.v["userModificationInstructions"] = expected
         ELSE "userModificationInstructions" \notin DOMAIN result.v
    ELSE Supplied =>
           /\ "userModificationInstructions" \in DOMAIN result.v
           /\ "userModificationInstructions" \notin DOMAIN gemini_outcome.value.v
                 => result.v["userModificationInstructions"] = expected

\* C10 as stated: the field carries the instructions as supplied.
C10_InstructionsCarriedVerbatim ==
    ReturnedRecord => Carried(user_instructions)

\* C10: when non-empty instructions are supplied, the returned record has
\* userModificationInstructions on either path: on the structured-data path
\* the instructions with leading and trailing whitespace stripped, on the
\* LLM path the same unless the LLM output has the field; without
\* instructions the structured-data record has no such field.
C10_InstructionsCarriedStripped ==
    ReturnedRecord =>
      Carried(IF Supplied THEN PyStr(Strip(user_instructions.v)) ELSE PyNone)

C10_Witness ==
    /\ pc = "returned"
    /\ calls.gemini = 0
    /\ user_instructions = PyStr(<<" ", "v", "e", "g", " ">>)
    /\ result.v["userModificationInstructions"] = PyStr(<<"v", "e", "g">>)

\* the value of a field of the returned record is a Python list
ListField(rec, k) == k \in DOMAIN rec.v /\ rec.v[k].t = "list"

\* C11: every record parse_recipe_from_url returns, on the structured-data
\* path and on the LLM path alike, has the fields ingredients and
\* instructions, and each of them is a sequence, never null or missing.
C11_IngredientsAndInstructionsAreSequences ==
    ReturnedRecord =>
      /\ ListField(result, "ingredients")
      /\ ListField(result, "instructions")

(* -------- schema_converter.py applied to candidates of every shape ----- *)
MaxDurLen == 4

DurationChars  == {"0", "1", "3", "H", "M", "D"}
DurationBodies == UNION {[1..n -> DurationChars] : n \in 0..MaxDurLen}
\* the values a candidate can carry as prepTime, cookTime or totalTime
Durations ==
    {PyStr(<<"P", "T">> \o b) : b \in DurationBodies}
      \cup {PyStr(b) : b \in DurationBodies}
      \cup {PyNone, PyInt(0), PyInt(30), PyList(<<>>), PyBool(TRUE),
            PyDict([minValue |-> PyInt(30)])}

\* a candidate with or without the key k
Field(k, values) == {<<>>} \cup {k :> v : v \in values}

Names == {PyNone, PyStr(<<>>), PyStr(<<" ">>), PyStr(<<"Soup">>)}
RecipeIngredients ==
    {PyNone, PyList(<<>>), PyList(<<PyStr(<<"salt">>), PyStr(<<"salt">>)>>),
     PyList(<<PyStr(<<"egg">>), PyStr(<<>>)>>), PyList(<<PyInt(3), PyNone>>),
     PyStr(<<"e", "g", "g">>)}
RecipeInstructions ==
    {PyNone, PyStr(<<"Mix", ".", " ", ".", "Bake">>),
     PyList(<<PyDict([text |-> PyStr(<<"Boil">>)]), PyStr(<<"Serve">>)>>),
     PyList(<<PyDict([name |-> PyStr(<<"Boil">>)])>>),
     PyList(<<PyStr(<<>>), PyStr(<<"Serve">>)>>),
     PyDict([text |-> PyStr(<<"Boil">>)])}
PrepTimes == {PyNone, PyStr(<<"P", "T", "5", "M">>), PyInt(30)}
Images ==
    {PyNone, PyStr(<<" ", "img">>), PyList(<<PyStr(<<"img">>)>>),
     PyList(<<PyDict([url |-> PyStr(<<"img">>)])>>), PyDict([url |-> PyStr(<<"img">>)])}

\* the mappings handed to convert_schema_org_to_internal_recipe
Candidates ==
    {PyDict(("@type" :> RECIPE) @@ n @@ g @@ s @@ p @@ i) :
        n \in Field("name", Names),
        g \in Field("recipeIngredient", RecipeIngredients),
        s \in Field("recipeInstructions", RecipeInstructions),
        p \in Field("prepTime", PrepTimes),
        i \in Field("image", Images)}

SourceUrls == {PyStr(HTTPS \o <<"a.example/soup">>)}

DurationInputs == [f : {"parse_schema_duration"}, duration_str : Durations]
ConvertInputs ==
    [f : {"convert_schema_org_to_internal_recipe"}, data : Candidates,
     source_url : SourceUrls]

\* the exception of the first statement of the converter that raises
ConvertException(data) ==
    CASE \/ DurationRaises(Get(data, "prepTime", PyNone))
         \/ DurationRaises(Get(data, "cookTime", PyNone))
         \/ DurationRaises(Get(data, "totalTime", PyNone))
           -> Raised("AttributeError", "object has no attribute 'startswith'")
      [] OTHER ->
           IF ~Iterable(Get(data, "recipeIngredient", PyList(<<>>)))
           THEN Raised("TypeError", "object is not iterable")
           ELSE Raised("AttributeError", "object has no attribute 'strip'")

\* parse_schema_duration(duration_str)
ApplyDuration ==
    /\ fn = "none"
    /\ arg.f = "parse_schema_duration"
    /\ fn' = arg.f
    /\ out' = IF DurationRaises(arg.duration_str)
              THEN Raised("AttributeError", "object has no attribute 'startswith'")
              ELSE Returned(parse_schema_duration(arg.duration_str))
    /\ UNCHANGED <<arg, main_vars, pair_vars, proc_vars>>

\* convert_schema_org_to_internal_recipe(data, source_url)
ApplyConvert ==
    /\ fn = "none"
    /\ arg.f = "convert_schema_org_to_internal_recipe"
    /\ fn' = arg.f
    /\ out' = IF ConvertRaises(arg.data)
              THEN ConvertException(arg.data)
              ELSE Returned(convert_schema_org_to_internal_recipe(
                                arg.data, arg.source_url, Uuid4Hex(1)))
    /\ UNCHANGED <<arg, main_vars, pair_vars, proc_vars>>

(* ------------------------------ utils.py ------------------------------ *)
\* A text is a sequence of tokens. The characters the regular expressions
\* and the JSON grammar look at are tokens of their own (braces, brackets,
\* comma, colon, quote, white space, digits, fence, comment marks); any
\* other token stands for a run of ordinary characters.
QUOTE == "\""
\* the three backquotes of a markdown fence
FENCE == "<fence>"
JsonWords == {"json", "JSON"}

RECURSIVE Concat(_)
Concat(tokens) == IF tokens = <<>> THEN "" ELSE Head(tokens) \o Concat(Tail(tokens))

\* json.JSONDecodeError(msg, doc, pos), and a value decoded up to pos
DecodeError(m, i) == [ok |-> FALSE, msg |-> m, pos |-> i]
Decoded(v, i)     == [ok |-> TRUE, value |-> v, pos |-> i]

\* a JSON string that opens at i; control characters may not occur in it
ParseString(s, i) ==
    LET stops == {j \in (i + 1)..Len(s) : s[j] \in {QUOTE, "\n", "\t"}}
    IN IF stops = {} THEN DecodeError("Unterminated string starting at", i)
       ELSE LET j == CHOOSE k \in stops : \A m \in stops : k <= m
            IN IF s[j] = QUOTE
               THEN Decoded(PyStr(SubSeq(s, i + 1, j - 1)), j + 1)
               ELSE DecodeError("Invalid control character at", j)

RECURSIVE ParseValue(_, _)
RECURSIVE ParseMembers(_, _, _)
RECURSIVE ParseElements(_, _, _)

\* the JSON value that starts at i
ParseValue(s, i) ==
    IF i > Len(s) THEN DecodeError("Expecting value", i)
    ELSE CASE s[i] = "{" ->
                LET j == SkipWs(s, i + 1)
                IN IF j <= Len(s) /\ s[j] = "}" THEN Decoded(EmptyDict, j + 1)
                   ELSE ParseMembers(s, j, <<>>)
           [] s[i] = "[" ->
                LET j == SkipWs(s, i + 1)
                IN IF j <= Len(s) /\ s[j] = "]" THEN Decoded(PyList(<<>>), j + 1)
                   ELSE ParseElements(s, j, <<>>)
           [] s[i] = QUOTE -> ParseString(s, i)
           [] s[i] = "0" -> Decoded(PyInt(0), i + 1)
           [] IsDigit(s[i]) /\ s[i] /= "0" ->
                Decoded(PyInt(ParseInt(SubSeq(s, i, DigitRunEnd(s, i)))),
                        DigitRunEnd(s, i) + 1)
           [] s[i] = "null"  -> Decoded(PyNone, i + 1)
           [] s[i] = "true"  -> Decoded(PyBool(TRUE), i + 1)
           [] s[i] = "false" -> Decoded(PyBool(FALSE), i + 1)
           [] OTHER -> DecodeError("Expecting value", i)

\* the members of an object from the key at j on; a repeated key keeps its
\* last value
ParseMembers(s, j, members) ==
    IF j > Len(s) \/ s[j] /= QUOTE
    THEN DecodeError("Expecting property name enclosed in double quotes", j)
    ELSE LET key == ParseString(s, j)
         IN IF ~key.ok THEN key
            ELSE LET c == SkipWs(s, key.pos)
                 IN IF c > Len(s) \/ s[c] /= ":"
                    THEN DecodeError("Expecting ':' delimiter", c)
                    ELSE LET val == ParseValue(s, SkipWs(s, c + 1))
                         IN IF ~val.ok THEN val
                            ELSE LET m == SkipWs(s, val.pos)
                                     all == (Concat(key.value.v) :> val.value) @@ members
                                 IN CASE m <= Len(s) /\ s[m] = "}" ->
                                           Decoded(PyDict(all), m + 1)
                                      [] m <= Len(s) /\ s[m] = "," ->
                                           ParseMembers(s, SkipWs(s, m + 1), all)
                                      [] OTHER ->
                                           DecodeError("Expecting ',' delimiter", m)

\* the elements of an array from the value at j on
ParseElements(s, j, elements) ==
    LET val == ParseValue(s, j)
    IN IF ~val.ok THEN val
       ELSE LET m == SkipWs(s, val.pos)
                all == Append(elements, val.value)
            IN CASE m <= Len(s) /\ s[m] = "]" -> Decoded(PyList(all), m + 1)
                 [] m <= Len(s) /\ s[m] = "," -> ParseElements(s, SkipWs(s, m + 1), all)
                 [] OTHER -> DecodeError("Expecting ',' delimiter", m)

\* json.loads(s): one value, white space around it and nothing else
json_loads(s) ==
    LET val == ParseValue(s, SkipWs(s, 1))
    IN IF ~val.ok THEN val
       ELSE IF SkipWs(s, val.pos) <= Len(s)
            THEN DecodeError("Extra data", SkipWs(s, val.pos))
            ELSE val

\* "^" and "$" under re.MULTILINE
AtLineStart(s, i) == i = 1 \/ s[i - 1] = "\n"
AtLineEnd(s, i)   == i > Len(s) \/ s[i] = "\n"

\* the least and the greatest member of a non-empty set of positions
First(positions) == CHOOSE j \in positions : \A k \in positions : j <= k
Last(positions)  == CHOOSE j \in positions : \A k \in positions : k <= j

\* the regular expression of line 47 matched at i: FENCE, an optional
\* "json" and white space at the start of a line, or white space and FENCE
\* at the end of one; the position after the match, 0 when there is none
FenceMatchEnd(s, i) ==
    IF AtLineStart(s, i) /\ s[i] = FENCE
    THEN SkipWs(s, IF i < Len(s) /\ s[i + 1] \in JsonWords THEN i + 2 ELSE i + 1)
    ELSE IF /\ SkipWs(s, i) <= Len(s)
            /\ s[SkipWs(s, i)] = FENCE
            /\ AtLineEnd(s, SkipWs(s, i) + 1)
         THEN SkipWs(s, i) + 1
         ELSE 0

\* re.sub of lines 46-51 from i: every match, left to right, is removed
RECURSIVE StripFences(_, _)
StripFences(s, i) ==
    LET starts == {j \in i..Len(s) : FenceMatchEnd(s, j) /= 0}
    IN IF starts = {} THEN SubSeq(s, i, Len(s))
       ELSE SubSeq(s, i, First(starts) - 1)
              \o StripFences(s, FenceMatchEnd(s, First(starts)))

\* the tokens that hold "//", and what of them stands before it
SlashTokens == {"//", "http://x"}
BeforeSlashes(t) == IF t = "http://x" THEN <<"http:">> ELSE <<>>

\* the end of the line that holds position i
LineEnd(s, i) == First({j \in i..Len(s) : s[j] = "\n"} \cup {Len(s) + 1})

\* re.sub(r"//.*", "", s) from i
RECURSIVE StripLineComments(_, _)
StripLineComments(s, i) ==
    LET starts == {j \in i..Len(s) : s[j] \in SlashTokens}
    IN IF starts = {} THEN SubSeq(s, i, Len(s))
       ELSE SubSeq(s, i, First(starts) - 1) \o BeforeSlashes(s[First(starts)])
              \o StripLineComments(s, LineEnd(s, First(starts)))

\* the "*/" that closes the "/*" at i, 0 when there is none
BlockEnd(s, i) ==
    IF {j \in (i + 1)..Len(s) : s[j] = "*/"} = {} THEN 0
    ELSE First({j \in (i + 1)..Len(s) : s[j] = "*/"})

\* re.sub(r"/\*.*?\*/", "", s, flags=re.DOTALL) from i
RECURSIVE StripBlockComments(_, _)
StripBlockComments(s, i) ==
    LET starts == {j \in i..Len(s) : s[j] = "/*" /\ BlockEnd(s, j) /= 0}
    IN IF starts = {} THEN SubSeq(s, i, Len(s))
       ELSE SubSeq(s, i, First(starts) - 1)
              \o StripBlockComments(s, BlockEnd(s, First(starts)) + 1)

\* re.sub(r",\s*([\]}])", r"\1", s) from i
RECURSIVE StripTrailingCommas(_, _)
StripTrailingCommas(s, i) ==
    LET starts == {j \in i..Len(s) :
                      /\ s[j] = ","
                      /\ SkipWs(s, j + 1) <= Len(s)
                      /\ s[SkipWs(s, j + 1)] \in {"]", "}"}}
    IN IF starts = {} THEN SubSeq(s, i, Len(s))
       ELSE SubSeq(s, i, First(starts) - 1)
              \o StripTrailingCommas(s, SkipWs(s, First(starts) + 1))

\* the five str.replace calls of lines 67-74 on one token; they replace
\* inside quoted strings and inside longer words as well ("<ellipsis>" is
\* the one character U+2026)
ReplaceLiteral(t) ==
    CASE t = "None"        -> "null"
      [] t = "True"        -> "true"
      [] t = "False"       -> "false"
      [] t = "undefined"   -> "null"
      [] t = "<ellipsis>"  -> "..."
      [] t = "Nonetheless" -> "nulltheless"
      [] OTHER             -> t
ReplaceLiterals(s) == [i \in 1..Len(s) |-> ReplaceLiteral(s[i])]

\* lines 61-74 with line 65 carried out before lines 61 and 63
ApplyFixesCommasFirst(s) ==
    ReplaceLiterals(
        StripBlockComments(
            StripLineComments(
                StripTrailingCommas(s, 1), 1), 1))
\* lines 61-74
ApplyFixes(s) ==
    ReplaceLiterals(
        StripTrailingCommas(
            StripBlockComments(
                StripLineComments(s, 1), 1), 1))

\* [:500] of lines 57 and 80
ExcerptLen == 500
Excerpt(s) == SubSeq(s, 1, IF Len(s) < ExcerptLen THEN Len(s) ELSE ExcerptLen)

\* line 82 with the excerpt of line 80 quoted in the message as well
MalformedOutputQuoting(final, fixed_string, printed) ==
    [raised |-> TRUE, exc |-> "ValueError",
     msg |-> "Invalid JSON format after cleaning",
     detail |-> [msg |-> final.msg, pos |-> final.pos],
     quoted |-> <<Excerpt(fixed_string)>>,
     cause |-> [exc |-> "JSONDecodeError", msg |-> final.msg,
                pos |-> final.pos, doc |-> fixed_string],
     printed |-> printed]
\* line 82: ValueError(f"Invalid JSON format after cleaning: {final_e}")
\* from final_e; msg and detail make up the message, quoted is the text of
\* the input the message holds, cause is the chained JSONDecodeError
MalformedOutput(final, fixed_string, printed) ==
    [raised |-> TRUE, exc |-> "ValueError",
     msg |-> "Invalid JSON format after cleaning",
     detail |-> [msg |-> final.msg, pos |-> final.pos],
     quoted |-> <<>>,
     cause |-> [exc |-> "JSONDecodeError", msg |-> final.msg,
                pos |-> final.pos, doc |-> fixed_string],
     printed |-> printed]

\* str(raw_json_string) of line 43
scrub_and_parse_json_string(raw_json_string) ==
    LET text      == IF raw_json_string.t = "str" THEN raw_json_string.v
                     ELSE PyStrOf(raw_json_string)
        warned    == IF raw_json_string.t = "str" THEN <<>> ELSE <<[line |-> 42]>>
        processed_string == Strip(StripFences(text, 1))
        first     == json_loads(processed_string)
        fixed_string == ApplyFixes(processed_string)
        final     == json_loads(fixed_string)
        printed57 == [line |-> 57, text |-> Excerpt(processed_string),
                      error |-> [msg |-> first.msg, pos |-> first.pos]]
        printed80 == [line |-> 80, text |-> Excerpt(fixed_string),
                      error |-> [msg |-> final.msg, pos |-> final.pos]]
    IN IF first.ok
       THEN [raised |-> FALSE, value |-> first.value, printed |-> warned]
       ELSE IF final.ok
            THEN [raised |-> FALSE, value |-> final.value,
                  printed |-> warned \o <<printed57>>]
            ELSE MalformedOutput(final, fixed_string,
                                 warned \o <<printed57, printed80>>)

\* line 102 with ".*?": the match ends at the first closing one
LazyEnd(ends) == First(ends)
\* ".*" is greedy: the match ends at the last closing one
GreedyEnd(ends) == Last(ends)

\* the closing tokens that can end a match opened at i
Closers(s, i) ==
    {j \in (i + 1)..Len(s) :
        \/ s[i] = "{" /\ s[j] = "}"
        \/ s[i] = "[" /\ s[j] = "]"}

\* re.search(r"(\{.*\}|\[.*\])", s, re.DOTALL): <<start, end>> of the
\* leftmost match, <<>> when there is none
SearchSpan(s) ==
    LET starts == {i \in 1..Len(s) : Closers(s, i) /= {}}
    IN IF starts = {} THEN <<>>
       ELSE <<First(starts), GreedyEnd(Closers(s, First(starts)))>>

\* line 104
NoJsonFound ==
    [raised |-> TRUE, exc |-> "ValueError",
     msg |-> "No JSON object or array found in text.", printed |-> <<>>]

extract_json_from_text(text) ==
    LET match == SearchSpan(text)
        json_str == SubSeq(text, match[1], match[2])
    IN IF match = <<>>
       THEN NoJsonFound
       ELSE IF json_loads(json_str).ok
            THEN [raised |-> FALSE, value |-> json_loads(json_str).value,
                  printed |-> <<>>]
            ELSE scrub_and_parse_json_string(PyStr(json_str))

(* ------------- utils.py applied to texts of every shape --------------- *)
MaxTextLen == 4

Str(t)         == <<QUOTE, t, QUOTE>>
Member(k, val) == Str(k) \o <<":">> \o val
Obj(members)   == <<"{">> \o members \o <<"}">>

\* what an LLM writes where a JSON value is asked for
JsonCores ==
    { Obj(Member("a", <<"1">>)),
      Obj(Member("a", <<"1">>) \o <<",">>),
      <<"[", "1", ",", " ", "2", ",", "\n", "]">>,
      Obj(Member("a", <<"None">>) \o <<",">> \o Member("b", <<"True">>)),
      Obj(Member("a", <<"undefined">>)),
      Obj(Member("a", <<"1">>) \o <<" ", "//", "x", "\n">>),
      Obj(Member("a", <<"1">>) \o <<",", " ", "//", "x", "\n">>),
      Obj(<<"/*", "x", "\n", "*/">> \o Member("a", <<"1">>)),
      Obj(Member("a", Str("http://x"))),
      Obj(Member("a", Str("http://x")) \o <<",">>),
      Obj(Member("a", Str("None"))),
      Obj(Member("a", Str("None")) \o <<",">>),
      Obj(Member("a", <<"1">>) \o <<",">> \o Member("a", <<"2">>)),
      Obj(<<"x">>),
      <<"[", "1", "<ellipsis>", "]">>,
      <<"1">>, <<"None">>, <<"x">>, <<>> }
Prefixes == {<<>>, <<FENCE, "json", "\n">>, <<FENCE, "\n">>, <<"x", " ">>, <<"[", " ">>}
Suffixes == {<<>>, <<"\n", FENCE>>, <<"\n", FENCE, "\n">>, <<" ", "x">>, <<" ", "}">>}

\* a text longer than the excerpt that no fix makes parse
LongText == [i \in 1..(ExcerptLen + 2) |-> "x"]

ScrubTexts ==
    {p \o c \o q : p \in Prefixes, c \in JsonCores, q \in Suffixes} \cup {LongText}

TextChars == {"{", "}", "[", "]", "1", ",", "x"}
ExtractTexts == ScrubTexts \cup UNION {[1..n -> TextChars] : n \in 0..MaxTextLen}

\* str() of None, int and bool is exact in PyStrOf
ScrubInputs ==
    [f : {"scrub_and_parse_json_string"},
     raw_json_string : {PyStr(t) : t \in ScrubTexts} \cup {PyNone, PyInt(3), PyBool(TRUE)}]
ExtractInputs == [f : {"extract_json_from_text"}, text : ExtractTexts]

\* scrub_and_parse_json_string(raw_json_string)
ApplyScrub ==
    /\ fn = "none"
    /\ arg.f = "scrub_and_parse_json_string"
    /\ fn' = arg.f
    /\ out' = scrub_and_parse_json_string(arg.raw_json_string)
    /\ UNCHANGED <<arg, main_vars, pair_vars, proc_vars>>

\* extract_json_from_text(text)
ApplyExtract ==
    /\ fn = "none"
    /\ arg.f = "extract_json_from_text"
    /\ fn' = arg.f
    /\ out' = extract_json_from_text(arg.text)
    /\ UNCHANGED <<arg, main_vars, pair_vars, proc_vars>>

(* ------ recipe_scraper.py: the scan applied to pages of every shape ---- *)
MaxEntities == 2

\* a Recipe that holds a "@graph" of its own, and a non-Recipe that does
TypedGraph   == Put(MinimalRecipe, "@graph", PyList(<<GoodRecipe>>))
WebSiteGraph == Put(WebSite, "@graph", PyList(<<GoodRecipe, MinimalRecipe>>))
\* what extruct hands back for the "json-ld" syntax, entity by entity; an
\* entity or a "@graph" member need not be a mapping
JsonLdEntities ==
    { WebSite, GoodRecipe, MinimalRecipe, Graph(<<WebSite, MinimalRecipe>>),
      TypedGraph, WebSiteGraph, Graph(<<PyStr(<<"x">>)>>), PyStr(<<"x">>) }
\* and for the "microdata" syntax
MicrodataEntities ==
    { Micro(MicroRecipeType, PyDict([name |-> PyStr(<<"Soup">>)])),
      Micro(MicroRecipeType, PyDict([name |-> PyStr(<<"Stew">>)])),
      Micro(MicroRecipeType, EmptyDict),
      Micro(<<"http://schema.org", "/WebSite">>, PyDict([name |-> PyStr(<<"Home">>)])) }
SeqsUpTo(S, n) == UNION {[1..k -> S] : k \in 0..n}
LocatePages ==
    { Page(Structured(ld, md), FALSE, <<>>) :
        ld \in SeqsUpTo(JsonLdEntities, MaxEntities),
        md \in SeqsUpTo(MicrodataEntities, MaxEntities) }
LocateInputs == [f : {"LocateRecipe"}, html : LocatePages]

\* lines 128-159 of parse_recipe_from_url on html: the candidate, and
\* whether the handler of line 157 ran
ApplyLocate ==
    /\ fn = "none"
    /\ arg.f = "LocateRecipe"
    /\ fn' = arg.f
    /\ out' = [raised |-> FALSE, value |-> LocateRecipe(arg.html).data,
               swallowed |-> LocateRecipe(arg.html).raised]
    /\ UNCHANGED <<arg, main_vars, pair_vars, proc_vars>>

(* --- recipe_scraper.py: the text extractor applied to pages of elements - *)
MaxElements == 2

\* an element with an id attribute
WithId(el, id) == [id |-> id] @@ el
\* elements a page holds around its content
Sidebar   == El("div", "sidebar", {}, <<"links">>)
Advert    == El("div", "advertisement", {}, <<"buy">>)
Comments  == WithId(El("div", "", {}, <<"first!">>), "comments")
Nav       == El("nav", "main-navigation", {}, <<"menu">>)
TextElements == {Article, Paragraph, Script, Sidebar, Advert, Comments, Nav}
TextPages ==
    { Page(Structured(<<>>, <<>>), FALSE, els) :
        els \in SeqsUpTo(TextElements, MaxElements) } \cup {EmptyPage}
ExtractTextInputs == [f : {"extract_relevant_text_from_html"}, html : TextPages]

\* extract_relevant_text_from_html(html_content)
ApplyExtractText ==
    /\ fn = "none"
    /\ arg.f = "extract_relevant_text_from_html"
    /\ fn' = arg.f
    /\ out' = [raised |-> FALSE, value |-> extract_relevant_text_from_html(arg.html)]
    /\ UNCHANGED <<arg, main_vars, pair_vars, proc_vars>>

PureInputs ==
    DurationInputs \cup ConvertInputs \cup ScrubInputs \cup ExtractInputs
      \cup LocateInputs \cup ExtractTextInputs

\* the argument is drawn, the function not yet applied
InitPure ==
    /\ MainInit
    /\ PairIdle
    /\ ProcIdle
    /\ fn = "none"
    /\ arg \in PureInputs
    /\ out = NoOutcome

NextPure ==
    \/ ApplyDuration
    \/ ApplyConvert
    \/ ApplyScrub
    \/ ApplyExtract
    \/ ApplyLocate
    \/ ApplyExtractText

SpecPure == InitPure /\ [][NextPure]_vars

(* ------------------- properties of the pure functions ----------------- *)
Converted == fn = "convert_schema_org_to_internal_recipe" /\ ~out.raised

\* C12: convert_schema_org_to_internal_recipe never raises, whatever
\* mapping it is given: fields missing, null or of an unexpected type (a
\* non-string duration, a null recipeIngredient, an image list whose first
\* element is not a string) all yield a record.
C12_ConverterNeverRaises ==
    fn = "convert_schema_org_to_internal_recipe" => ~out.raised

\* "PT", then the hours token when h is a number, then the minutes token
DurationText(h, m) ==
    <<"P", "T">> \o (IF h = <<>> THEN <<>> ELSE h \o <<"H">>)
                 \o (IF m = <<>> THEN <<>> ELSE m \o <<"M">>)
\* "N hr M min", "N hr", "M min" or null
DurationLabel(h, m) ==
    CASE h /= <<>> /\ m /= <<>> ->
           PyStr(IntToStr(ParseInt(h)) \o <<" ", "h", "r", " ">>
                   \o IntToStr(ParseInt(m)) \o <<" ", "m", "i", "n">>)
      [] h /= <<>> /\ m = <<>> -> PyStr(IntToStr(ParseInt(h)) \o <<" ", "h", "r">>)
      [] h = <<>> /\ m /= <<>> -> PyStr(IntToStr(ParseInt(m)) \o <<" ", "m", "i", "n">>)
      [] OTHER -> PyNone
\* the numbers of one or two digits, and no number
TokenNumbers == {<<>>} \cup UNION {[1..n -> {"0", "1", "3"}] : n \in 1..2}
\* no digit stands before an "H" or an "M"
NeitherToken(s) == \A i \in 2..Len(s) : s[i] \in {"H", "M"} => ~IsDigit(s[i - 1])

\* C13: parse_schema_duration maps a duration with hours token N and
\* minutes token M to "N hr M min", with only hours to "N hr", with only
\* minutes to "M min", and returns null without raising for an empty or
\* missing value, for text with neither token and for any other invalid
\* value.
C13_DurationLabels ==
    fn = "parse_schema_duration" =>
      /\ ~out.raised
      /\ \A h \in TokenNumbers, m \in TokenNumbers :
            arg.duration_str = PyStr(DurationText(h, m))
              => out.value = DurationLabel(h, m)
      /\ ~Truthy(arg.duration_str) => out.value = PyNone
      /\ arg.duration_str.t = "str" /\ NeitherToken(arg.duration_str.v)
            => out.value = PyNone

\* the candidate has no name, a null name or a name of white space only
BlankName(data) ==
    \/ ~HasKey(data, "name")
    \/ data.v["name"] = PyNone
    \/ data.v["name"].t = "str" /\ Strip(data.v["name"].v) = <<>>

\* C14: every record the converter produces has a non-empty title (the
\* default title when the name of the candidate is missing or blank), a
\* freshly generated non-empty recipeId, source "url_import_schema.org",
\* originalImportUrl equal to the source URL, isPublic and isSecretRecipe
\* false and tipsAndVariations null.
C14_ConverterFixedFields ==
    Converted =>
      /\ Truthy(out.value.v["title"])
      /\ BlankName(arg.data) => out.value.v["title"] = DEFAULT_RECIPE_TITLE
      /\ out.value.v["recipeId"] = Uuid4Hex(1)
      /\ Truthy(out.value.v["recipeId"])
      /\ out.value.v["source"] = SOURCE_SCHEMA_ORG
      /\ out.value.v["originalImportUrl"] = arg.source_url
      /\ out.value.v["isPublic"] = PyBool(FALSE)
      /\ out.value.v["isSecretRecipe"] = PyBool(FALSE)
      /\ out.value.v["tipsAndVariations"] = PyNone

NonEmptyString(x) == x.t = "str" /\ x.v /= <<>>

\* C15: ingredients has exactly one entry per element of recipeIngredient,
\* in source order and without deduplication, each with quantity null, unit
\* null and a non-empty string item_name; instructions has one entry per
\* source step, in order, each a non-empty string.
C15_OneEntryPerSourceElement ==
    Converted =>
      LET source_ingredients == Get(arg.data, "recipeIngredient", PyList(<<>>))
          source_steps       == Get(arg.data, "recipeInstructions", PyNone)
          ingredients        == out.value.v["ingredients"].v
          instructions       == out.value.v["instructions"].v
      IN /\ source_ingredients.t = "list" =>
              /\ Len(ingredients) = Len(source_ingredients.v)
              /\ \A i \in 1..Len(ingredients) :
                    source_ingredients.v[i].t = "str"
                      => ingredients[i].v["item_name"] = source_ingredients.v[i]
         /\ \A i \in 1..Len(ingredients) :
               /\ ingredients[i].v["quantity"] = PyNone
               /\ ingredients[i].v["unit"] = PyNone
               /\ NonEmptyString(ingredients[i].v["item_name"])
         /\ source_steps.t = "list" => Len(instructions) = Len(source_steps.v)
         /\ \A i \in 1..Len(instructions) : NonEmptyString(instructions[i])

\* the text scrub_and_parse_json_string parses at its second attempt, and
\* whether both of its attempts fail
AttemptedText(raw) ==
    ApplyFixes(Strip(StripFences(IF raw.t = "str" THEN raw.v ELSE PyStrOf(raw), 1)))
BothAttemptsFail(raw) ==
    /\ ~json_loads(Strip(StripFences(IF raw.t = "str" THEN raw.v ELSE PyStrOf(raw), 1))).ok
    /\ ~json_loads(AttemptedText(raw)).ok
Scrubbed == fn = "scrub_and_parse_json_string"

\* C16 as stated: the error carries the final parser error together with
\* an excerpt of at most 500 characters of the attempted text.
C16_ErrorCarriesExcerpt ==
    Scrubbed /\ BothAttemptsFail(arg.raw_json_string) =>
      /\ out.raised
      /\ out.detail = [msg |-> json_loads(AttemptedText(arg.raw_json_string)).msg,
                       pos |-> json_loads(AttemptedText(arg.raw_json_string)).pos]
      /\ out.quoted = <<Excerpt(AttemptedText(arg.raw_json_string))>>
      /\ Len(out.quoted[1]) <= ExcerptLen

\* C16: when both parse attempts of scrub_and_parse_json_string fail, the
\* ValueError it raises carries the final parser error in its message and
\* no text of the input; the excerpt of at most 500 characters of the
\* attempted text is only printed, and the whole attempted text stays in
\* the chained JSONDecodeError.
C16_ErrorCarriesParserErrorOnly ==
    Scrubbed /\ BothAttemptsFail(arg.raw_json_string) =>
      /\ out.raised
      /\ out.exc = "ValueError"
      /\ out.msg = "Invalid JSON format after cleaning"
      /\ out.detail = [msg |-> json_loads(AttemptedText(arg.raw_json_string)).msg,
                       pos |-> json_loads(AttemptedText(arg.raw_json_string)).pos]
      /\ out.quoted = <<>>
      /\ out.printed[Len(out.printed)].line = 80
      /\ out.printed[Len(out.printed)].text
           = Excerpt(AttemptedText(arg.raw_json_string))
      /\ Len(out.printed[Len(out.printed)].text) <= ExcerptLen
      /\ out.cause.doc = AttemptedText(arg.raw_json_string)

C16_Witness ==
    /\ Scrubbed
    /\ out.raised
    /\ Len(out.cause.doc) > ExcerptLen
    /\ Len(out.printed[Len(out.printed)].text) = ExcerptLen
    /\ out.quoted = <<>>

Extracted == fn = "extract_json_from_text"

Closing(t) == IF t = "{" THEN "}" ELSE "]"
Openers(s) == {i \in 1..Len(s) : s[i] \in {"{", "["}}
\* the closing tokens after i of the kind of the opening token at i
ClosersAfter(s, i) == {j \in (i + 1)..Len(s) : s[j] = Closing(s[i])}
\* the text has a "{...}" or a "[...]" span
HasJsonSpan(s) == \E i \in Openers(s) : ClosersAfter(s, i) /= {}

\* from the first opening brace or bracket of the text to the last closing
\* one of its kind
StatedSpan(s) ==
    IF ClosersAfter(s, First(Openers(s))) = {} THEN <<>>
    ELSE SubSeq(s, First(Openers(s)), Last(ClosersAfter(s, First(Openers(s)))))

\* from the first opening brace or bracket that has a closing one of its
\* kind after it to the last such closing one
MatchedSpan(s) ==
    LET i == First({k \in Openers(s) : ClosersAfter(s, k) /= {}})
    IN SubSeq(s, i, Last(ClosersAfter(s, i)))

\* what the caller sees of an outcome
Seen(r) == IF r.raised THEN <<"raised", r.exc, r.msg>> ELSE <<"returned", r.value>>

\* no span: NoJsonFound; otherwise the value parsed, with repair, from the
\* span, or MalformedOutput
ThreeOutcomes(text, span) ==
    IF ~HasJsonSpan(text) THEN Seen(out) = Seen(NoJsonFound)
    ELSE /\ Seen(out) = Seen(scrub_and_parse_json_string(PyStr(span)))
         /\ out.raised =>
              /\ out.exc = "ValueError"
              /\ out.msg = "Invalid JSON format after cleaning"

\* C17 as stated: the span runs from the first opening brace or bracket of
\* the text to the last closing one.
C17_SpanFromFirstOpening ==
    Extracted => ThreeOutcomes(arg.text, StatedSpan(arg.text))

\* C17: extract_json_from_text has exactly three outcomes: it fails with
\* NoJsonFound when the text has no "{...}" or "[...]" span; otherwise it
\* takes the span from the first opening brace or bracket that is followed
\* by a closing one of its own kind to the last closing one of that kind,
\* and returns the value parsed (with repair) from that span or fails with
\* MalformedOutput; no other exception escapes.
C17_ThreeOutcomes ==
    Extracted => ThreeOutcomes(arg.text, MatchedSpan(arg.text))

C17_Witness ==
    /\ Extracted
    /\ arg.text = <<"[", " ">> \o Obj(Member("a", <<"1">>))
    /\ ~out.raised
    /\ out.value = PyDict([a |-> PyInt(1)])

(* --------- two parse_recipe_from_url coroutines of one caller --------- *)
\* The caller either gathers both coroutines on one event loop ("loop") or
\* runs each on a loop and thread of its own as main.py does per request
\* ("threads"). A coroutine runs without a break from one of its waits to
\* the next: the blocking requests.get inside fetch_url_content (line 34)
\* and the await of line 180.
Coroutines == {1, 2}

PairUrls == {PyStr(HTTPS \o <<"a">>), PyStr(HTTP \o <<"b">>),
             PyStr(<<"f", "t", "p", ":", "/", "/", "a">>)}
PairInstructions == {PyNone, PyStr(<<" ", "v", "e", "g", " ">>)}
PairPages ==
    { Page(Structured(<<GoodRecipe>>, <<>>), FALSE, <<Article>>),
      Page(Structured(<<BadDurationRecipe>>, <<>>), FALSE, <<Script, Paragraph>>),
      Page(Structured(<<>>, <<>>), FALSE, <<Paragraph>>),
      Page(Structured(<<>>, <<>>), FALSE, <<Blank>>) }
PairResponses == [kind : {"ok"}, page : PairPages] \cup {[kind |-> "Timeout"]}
PairReplies ==
    { [kind |-> "failure", exc |-> "RuntimeError"],
      [kind |-> "text", repairable |-> FALSE],
      [kind |-> "text", repairable |-> TRUE, json |-> PyDict([title |-> PyStr(<<"Stew">>)])],
      [kind |-> "text", repairable |-> TRUE,
       json |-> PyDict([title |-> PyStr(<<"Stew">>), recipeId |-> PyStr(<<"llm-id">>)])] }

NoResponse == [kind |-> "none"]
NoReply    == [kind |-> "none"]

\* the locals of a call that has not run yet
NewFrame(u, instructions) ==
    [pc |-> "new", url |-> u, user_instructions |-> instructions,
     response |-> NoResponse, page_text_content |-> <<>>, reply |-> NoReply,
     outcome |-> NoOutcome, overlapped |-> FALSE]

\* lines 108-206 with module-level names in place of locals: both calls
\* read and write the same frame
LocalsShared(frames, r) == frames[1]
\* lines 108-206 assign local names only: a coroutine reads its own frame
Locals(frames, r) == frames[r]

\* lines 115-122: from the call to the request of fetch_url_content
RunToFetch(f) ==
    LET a == AfterValidate(f.url)
    IN IF a.next = "raised" THEN [f EXCEPT !.pc = "done", !.outcome = a.error]
       ELSE [f EXCEPT !.pc = "fetching"]

\* lines 123-180: from the response to the await of line 180, or to the end
\* when the structured data converts or a stage raises; n numbers the uuid4
RunToAwait(f, resp, n) ==
    LET a == AfterFetch(fetch_url_content(resp))
    IN IF a.next = "raised" THEN [f EXCEPT !.pc = "done", !.outcome = a.error]
       ELSE LET found == LocateRecipe(a.content)
                c == IF AfterLocate(found) = "convert"
                     THEN TryConvert(found.data, f.url, f.user_instructions, Uuid4Hex(n))
                     ELSE [next |-> "extract"]
                text == extract_relevant_text_from_html(a.content)
                e == AfterExtract(text)
            IN CASE c.next = "returned" ->
                      [f EXCEPT !.pc = "done", !.outcome = Returned(c.value)]
                 [] c.next = "raised" ->
                      [f EXCEPT !.pc = "done", !.outcome = c.error]
                 [] c.next = "extract" /\ e.next = "raised" ->
                      [f EXCEPT !.pc = "done", !.page_text_content = text,
                                !.outcome = e.error]
                 [] OTHER ->
                      [f EXCEPT !.pc = "awaiting", !.page_text_content = text]

\* lines 181-206: from the reply of the callee to the end
RunToEnd(f, reply, n) ==
    [f EXCEPT !.pc = "done",
              !.outcome = HandleGemini(
                              extract_recipe_from_text_content_for_url_scrape(reply),
                              f.url, f.user_instructions, Uuid4Str(n))]

\* history: r takes a step while another coroutine is inside its fetch or
\* its await
Overlaps(r) == \E o \in Coroutines \ {r} : co[o].pc \in {"fetching", "awaiting"}

\* the loop can run a coroutine that is ready
LoopFree == mode = "loop" => loop_owner = 0

\* coroutine r is first run: it validates and calls requests.get, which
\* returns only with the response
CoStart(r) ==
    /\ co[r].pc = "new"
    /\ LoopFree
    /\ co' = [co EXCEPT ![r] =
                [@ EXCEPT !.pc = RunToFetch(Locals(co, r)).pc,
                          !.outcome = RunToFetch(Locals(co, r)).outcome,
                          !.overlapped = @ \/ Overlaps(r)]]
    /\ loop_owner' = IF mode = "loop" /\ RunToFetch(Locals(co, r)).pc = "fetching"
                     THEN r ELSE loop_owner
    /\ UNCHANGED <<mode, main_vars, pure_vars, proc_vars>>

\* the response of r arrives and r runs on to its await or to its end
CoFetchReturn(r) ==
    /\ co[r].pc = "fetching"
    /\ \E resp \in PairResponses :
          co' = [co EXCEPT ![r] =
                   [@ EXCEPT !.pc = RunToAwait(Locals(co, r), resp, r).pc,
                             !.response = resp,
                             !.page_text_content =
                                 RunToAwait(Locals(co, r), resp, r).page_text_content,
                             !.outcome = RunToAwait(Locals(co, r), resp, r).outcome,
                             !.overlapped = @ \/ Overlaps(r)]]
    /\ loop_owner' = IF mode = "loop" THEN 0 ELSE loop_owner
    /\ UNCHANGED <<mode, main_vars, pure_vars, proc_vars>>

\* the reply of the callee arrives and r runs on to its end
CoResume(r) ==
    /\ co[r].pc = "awaiting"
    /\ LoopFree
    /\ \E reply \in PairReplies :
          co' = [co EXCEPT ![r] =
                   [@ EXCEPT !.pc = "done",
                             !.reply = reply,
                             !.outcome = RunToEnd(Locals(co, r), reply, r).outcome,
                             !.overlapped = @ \/ Overlaps(r)]]
    /\ UNCHANGED <<loop_owner, mode, main_vars, pure_vars, proc_vars>>

InitPair ==
    /\ MainInit
    /\ PureIdle
    /\ ProcIdle
    /\ mode \in {"loop", "threads"}
    /\ loop_owner = 0
    /\ co \in [Coroutines -> {NewFrame(u, i) : u \in PairUrls, i \in PairInstructions}]

NextPair ==
    \E r \in Coroutines :
        \/ CoStart(r)
        \/ CoFetchReturn(r)
        \/ CoResume(r)

SpecPair == InitPair /\ [][NextPair]_vars

(* ------------------ properties of the two coroutines ------------------ *)
Done(r)     == co[r].pc = "done"
Resolved(r) == Done(r) /\ ~co[r].outcome.raised

\* the same page is resolved twice without instructions: same URL, same
\* response, same reply of the LLM where it was called
SameResolution(a, b) ==
    /\ co[a].url = co[b].url
    /\ co[a].user_instructions = PyNone
    /\ co[b].user_instructions = PyNone
    /\ co[a].response = co[b].response
    /\ co[a].reply = co[b].reply

EqualButRecipeId(x, y) ==
    /\ DOMAIN x.v = DOMAIN y.v
    /\ \A k \in DOMAIN x.v \ {"recipeId"} : x.v[k] = y.v[k]

\* C18: resolving the same static page twice with no user instructions
\* (same fetched content, same LLM reply) yields records that agree in
\* every field except recipeId, which is freshly generated.
C18_Idempotent ==
    \A a, b \in Coroutines :
        Done(a) /\ Done(b) /\ SameResolution(a, b) /\ Resolved(a)
          => /\ Resolved(b)
             /\ EqualButRecipeId(co[a].outcome.value, co[b].outcome.value)

C18_Witness ==
    /\ Resolved(1)
    /\ Resolved(2)
    /\ SameResolution(1, 2)
    /\ co[1].reply.kind = "text"
    /\ co[1].outcome.value.v["recipeId"] /= co[2].outcome.value.v["recipeId"]
    /\ co[1].outcome.value.v["title"] = co[2].outcome.value.v["title"]

\* what the call of frame f returns or raises when nothing else runs: the
\* three segments one after the other on the response and reply f received;
\* without a response, or without a reply to its await, it does not end
Alone(f, n) ==
    LET f1 == RunToFetch(NewFrame(f.url, f.user_instructions))
        f2 == RunToAwait(f1, f.response, n)
    IN IF f1.pc = "done" THEN f1.outcome
       ELSE IF f.response = NoResponse THEN NoOutcome
       ELSE IF f2.pc = "done" THEN f2.outcome
       ELSE IF f.reply = NoReply THEN NoOutcome
       ELSE RunToEnd(f2, f.reply, n).outcome

\* C19: for any interleaving of two parse_recipe_from_url executions at
\* their fetch and LLM steps, each returns (or raises) what it would when
\* run alone: no state written by one resolution is read by the other.
C19_Independent ==
    \A r \in Coroutines : Done(r) => co[r].outcome = Alone(co[r], r)

C19_Witness ==
    /\ Resolved(1)
    /\ Resolved(2)
    /\ co[1].overlapped
    /\ co[2].overlapped
    /\ co[1].url /= co[2].url
    /\ co[1].user_instructions /= co[2].user_instructions
    /\ co[1].reply.kind = "text"
    /\ co[2].reply.kind = "none"

\* coroutine r waits for its response or for the reply of the LLM
Waiting(r) == co[r].pc \in {"fetching", "awaiting"}

\* C20: the network fetch and the LLM call are both suspension points:
\* while one resolution waits for its response or for the LLM reply,
\* another resolution on the same event loop can take its steps.
C20_WaitsSuspend ==
    mode = "loop" =>
      \A a, b \in Coroutines :
          a /= b /\ Waiting(a) /\ co[b].pc = "new" => ENABLED CoStart(b)

(* ---------------- utils.py: the order of the attempts ------------------ *)
\* the text of the first attempt: code fences and the white space around
\* the text stripped
StrippedText(raw) ==
    Strip(StripFences(IF raw.t = "str" THEN raw.v ELSE PyStrOf(raw), 1))
\* the repairs in the order stated: comments, trailing commas, literals
RepairedInOrder(s) ==
    ReplaceLiterals(
        StripTrailingCommas(
            StripBlockComments(
                StripLineComments(s, 1), 1), 1))
\* the function printed line 57, that is it went on to the repairs
Repaired(o) == \E i \in 1..Len(o.printed) : o.printed[i].line = 57

\* C21: scrub_and_parse_json_string makes ordered attempts and stops at the
\* first success: when the text with code fences and surrounding white
\* space stripped is valid JSON the result is exactly its parse and no
\* repair is applied; only when that parse fails are comments, trailing
\* commas before a closing bracket or brace and the literals normalized, in
\* that order, and the result is parsed once more.
C21_OrderedAttempts ==
    Scrubbed =>
      LET stripped == StrippedText(arg.raw_json_string)
          repaired == RepairedInOrder(stripped)
      IN IF json_loads(stripped).ok
         THEN /\ ~out.raised
              /\ out.value = json_loads(stripped).value
              /\ ~Repaired(out)
         ELSE /\ Repaired(out)
              /\ IF json_loads(repaired).ok
                 THEN ~out.raised /\ out.value = json_loads(repaired).value
                 ELSE out.raised /\ out.cause.doc = repaired

\* a trailing comma that shows only once the comment after it is removed
C21_Witness ==
    /\ Scrubbed
    /\ arg.raw_json_string.t = "str"
    /\ ~json_loads(StrippedText(arg.raw_json_string)).ok
    /\ \E i \in 1..Len(arg.raw_json_string.v) : arg.raw_json_string.v[i] = "//"
    /\ ~json_loads(StripLineComments(StrippedText(arg.raw_json_string), 1)).ok
    /\ ~out.raised
    /\ Repaired(out)
    /\ out.value = PyDict("a" :> PyInt(1))

(* ------------- recipe_scraper.py: the order of the scan ---------------- *)
Located == fn = "LocateRecipe"

\* the JSON-LD entities in the order stated: each entity, then the members
\* of its "@graph", entity after entity
GraphMembers(e) ==
    IF e.t = "dict" /\ HasKey(e, "@graph") /\ e.v["@graph"].t = "list"
    THEN e.v["@graph"].v ELSE <<>>
RECURSIVE InScanOrder(_)
InScanOrder(items) ==
    IF items = <<>> THEN <<>>
    ELSE <<Head(items)>> \o GraphMembers(Head(items)) \o InScanOrder(Tail(items))
\* typed Recipe: "@type" is the string Recipe or a list that holds it
RecipeTyped(e) ==
    /\ e.t = "dict"
    /\ HasKey(e, "@type")
    /\ \/ e.v["@type"] = RECIPE
       \/ e.v["@type"].t = "list"
            /\ \E i \in 1..Len(e.v["@type"].v) : e.v["@type"].v[i] = RECIPE
\* microdata of a type that ends in /Recipe
MicrodataRecipe(e) ==
    /\ e.t = "dict"
    /\ HasKey(e, "type")
    /\ e.v["type"].t = "str"
    /\ EndsWith(e.v["type"].v, <<"/Recipe">>)
JsonLdOf(html)    == html.structured.v["json-ld"].v
MicrodataOf(html) == html.structured.v["microdata"].v
JsonLdHits(html) ==
    {i \in 1..Len(InScanOrder(JsonLdOf(html))) : RecipeTyped(InScanOrder(JsonLdOf(html))[i])}
MicrodataHits(html) ==
    {i \in 1..Len(MicrodataOf(html)) : MicrodataRecipe(MicrodataOf(html)[i])}
FirstMicrodata(html) ==
    Get(MicrodataOf(html)[First(MicrodataHits(html))], "properties", EmptyDict)

JsonLdScanRaises(html) == ScanJsonLd(JsonLdOf(html)).out = "raise"

\* C23: the two syntaxes are isolated from each other: when scanning the
\* JSON-LD entities raises (an entity or a @graph member is not a mapping),
\* a microdata entity of type Recipe on the same page is still scanned for
\* and is the candidate.
C23_SyntaxesIsolated ==
    Located /\ JsonLdScanRaises(arg.html) /\ MicrodataHits(arg.html) /= {} =>
      out.value = FirstMicrodata(arg.html)

(* ------------- recipe_scraper.py: the denylist of elements ------------- *)
TextExtracted == fn = "extract_relevant_text_from_html"

\* the entries of lines 64-71 read as patterns: tag names, ".class" and "#id"
DenylistedTags ==
    {"script", "style", "nav", "footer", "header", "aside", "form",
     "button", "iframe", "noscript", "link", "meta", "head",
     "figure", "figcaption"}
DenylistedClasses ==
    {"comments-area", "sidebar", "related-posts", "related-articles",
     "social-share", "share-buttons", "advertisement", "ad",
     "site-header", "site-footer", "main-navigation"}
DenylistedIds == {"comments", "sidebar"}
IdOf(el) == IF "id" \in DOMAIN el THEN el.id ELSE ""
Denylisted(el) ==
    \/ el.tag \in DenylistedTags
    \/ el.cls \in DenylistedClasses
    \/ IdOf(el) \in DenylistedIds
Occurs(text, s) == \E i \in 1..Len(s) : \E j \in 1..Len(text) : s[i] = text[j]

\* C24: extract_relevant_text_from_html removes every denylisted element
\* before it selects text, for the tag entries and for the class and id
\* pattern entries alike: no text of a denylisted element is in the excerpt.
C24_DenylistedTextRemoved ==
    TextExtracted =>
      \A i \in 1..Len(arg.html.elements) :
         Denylisted(arg.html.elements[i])
           => ~Occurs(GetText(arg.html.elements[i]), out.value)

(* ------------- gemini_processors.py: the two processors ---------------- *)
MaxProcCalls == 2

\* the config module the process imports: "src" is config.py as it stands,
\* which defines no GEMINI_* attribute and no RECIPE_SYSTEM_PROMPT_JSON;
\* "no_key" and "full" are a config.py that defines them, GEMINI_API_KEY
\* empty and non-empty
ConfigModules == {"src", "no_key", "full"}
ConfigDefines(c) == c /= "src"
GEMINI_API_KEY(c) == IF c = "full" THEN PyStr(<<"key">>) ELSE PyStr(<<>>)

GCS_BUCKET_NAME == "saucey-images-saucey-3fb0f"
MAX_IMAGE_UPLOAD_SIZE_BYTES == 10 * 1024 * 1024
VALID_IMAGE_MIME_TYPES ==
    {"image/png", "image/jpeg", "image/webp", "image/heic", "image/heif"}

ErrorDict(msg) == PyDict([error |-> PyStr(<<msg>>)])

\* lines 20-29: the flag after the call, or the AttributeError of line 24
ensure_gemini_configured(c, configured) ==
    IF configured THEN [raised |-> FALSE, configured |-> TRUE]
    ELSE IF ~ConfigDefines(c) THEN [raised |-> TRUE, configured |-> FALSE]
    ELSE [raised |-> FALSE, configured |-> Truthy(GEMINI_API_KEY(c))]

\* str.lower() on the MIME types of the model
Lower(s) == IF s = "IMAGE/PNG" THEN "image/png" ELSE s
\* utils.py 111-116
is_valid_image_mime_type(mime_type) == Lower(mime_type) \in VALID_IMAGE_MIME_TYPES

\* mime_type.split('/')[-1] of line 123, and mimetypes.guess_type of
\* image_processor.py line 12, which ignores the case of the extension
Extension(mime_type) ==
    CASE mime_type = "image/png" -> "png"
      [] mime_type = "IMAGE/PNG" -> "PNG"
      [] mime_type = "image/jpeg" -> "jpeg"
      [] OTHER -> "plain"
GuessType(extension) ==
    CASE extension \in {"png", "PNG"} -> "image/png"
      [] extension = "jpeg" -> "image/jpeg"
      [] OTHER -> "application/octet-stream"

\* image_processor.py 11-28: storage is what Cloud Storage does: "ok",
\* "client_error" (storage.Client raises, outside the try of line 23) or
\* "upload_error" (upload_from_string raises, inside it)
upload_image_to_gcs(image_size, user_id, extension, storage, n) ==
    IF Lower(GuessType(extension)) \notin VALID_IMAGE_MIME_TYPES THEN Returned(PyNone)
    ELSE IF image_size > MAX_IMAGE_UPLOAD_SIZE_BYTES THEN Returned(PyNone)
    ELSE CASE storage = "client_error" -> Raised("DefaultCredentialsError", "no credentials")
           [] storage = "upload_error" -> Returned(PyNone)
           [] OTHER ->
                Returned(PyStr(<<"gs://", GCS_BUCKET_NAME, "/">> \o user_id.v
                               \o <<"/">> \o Uuid4Hex(n).v \o <<"_upload.", extension>>))

\* image_processor.py 30-44
delete_image_from_gcs(gcs_uri, storage) ==
    IF ~StartsWith(gcs_uri.v, <<"gs://", GCS_BUCKET_NAME, "/">>) THEN Returned(PyBool(FALSE))
    ELSE CASE storage = "client_error" -> Raised("DefaultCredentialsError", "no credentials")
           [] storage = "upload_error" -> Returned(PyBool(FALSE))
           [] OTHER -> Returned(PyBool(TRUE))

\* "error" in recipe_data, for a dict and for a list
HasError(recipe_data) ==
    \/ recipe_data.t = "dict" /\ HasKey(recipe_data, "error")
    \/ recipe_data.t = "list"
         /\ \E i \in 1..Len(recipe_data.v) : recipe_data.v[i] = PyStr(<<"error">>)
NoRecipe(recipe_data) == ~Truthy(recipe_data) \/ HasError(recipe_data)

\* lines 152-162: the check after the scrub, then the fields of the record;
\* item assignment on a list raises and ends in the handler of line 164
FinishVisionRecipe(recipe_data, gcs_uri, id) ==
    IF NoRecipe(recipe_data)
    THEN IF recipe_data.t = "dict" /\ HasKey(recipe_data, "error") THEN recipe_data
         ELSE ErrorDict("Failed to parse recipe from AI vision response.")
    ELSE IF recipe_data.t /= "dict"
    THEN ErrorDict("AI service (Vision) call failed or processing error")
    ELSE Put(Put(IF ~Truthy(Get(recipe_data, "recipeId", PyNone))
                 THEN Put(recipe_data, "recipeId", id) ELSE recipe_data,
                 "source", PyStr(<<"image_upload_gemini_vision">>)),
             "originalImageGcsUri", gcs_uri)

\* lines 147-150: again is what scrub_and_parse_json_string did
AfterRescrub(again, gcs_uri, id) ==
    IF again.raised
    THEN ErrorDict("Failed to parse recipe from AI vision response even after scrubbing")
    ELSE FinishVisionRecipe(again.value, gcs_uri, id)

\* lines 141-150: first is what extract_json_from_text did; its exception
\* ends in the handler of line 164
AfterVisionParse(first, text, gcs_uri, id) ==
    IF first.raised
    THEN ErrorDict("AI service (Vision) call failed or processing error")
    ELSE IF NoRecipe(first.value)
    THEN AfterRescrub(scrub_and_parse_json_string(PyStr(text)), gcs_uri, id)
    ELSE FinishVisionRecipe(first.value, gcs_uri, id)

\* lines 138-162: from response.text to the value returned
ParseVisionResponse(text, gcs_uri, id) ==
    AfterVisionParse(extract_json_from_text(text), text, gcs_uri, id)

\* lines 166-168 with the deletion moved to the end of the try block, after
\* line 161: it runs for a record only
FinallyDeletesOnSuccess(f) ==
    /\ f.temp_image_uploaded_to_gcs
    /\ Truthy(f.gcs_uri)
    /\ ~HasKey(f.pending, "error")
\* line 167
FinallyDeletes(f) == f.temp_image_uploaded_to_gcs /\ Truthy(f.gcs_uri)

\* the parameters of parse_recipe_from_url (recipe_scraper.py 108-113) and
\* the arguments of the call of line 183: one positional, one keyword
ParseRecipeParameters ==
    <<"url", "gemini_model_instance", "user_instructions", "user_preferences">>
PositionalArguments == 1
KeywordArguments == {"user_instructions"}
MissingArguments ==
    {ParseRecipeParameters[i] : i \in (PositionalArguments + 1)..Len(ParseRecipeParameters)}
      \ KeywordArguments

\* parse_recipe_from_url awaited to its end for the response the URL serves
\* and the reply of the LLM callee
AwaitParse(u, instructions, resp, reply, n) ==
    LET f1 == RunToFetch(NewFrame(u, instructions))
        f2 == RunToAwait(f1, resp, n)
    IN IF f1.pc = "done" THEN f1.outcome
       ELSE IF f2.pc = "done" THEN f2.outcome
       ELSE RunToEnd(f2, reply, n).outcome

\* lines 185-194: what is made of the value parse_recipe_from_url returned
FinishUrlRecipe(recipe_data, id) ==
    IF NoRecipe(recipe_data)
    THEN IF recipe_data.t = "dict" /\ HasKey(recipe_data, "error") THEN recipe_data
         ELSE ErrorDict("Failed to scrape or process recipe from URL.")
    ELSE IF HasKey(recipe_data, "source")
    THEN IF ~Truthy(Get(recipe_data, "recipeId", PyNone))
         THEN Put(recipe_data, "recipeId", id) ELSE recipe_data
    ELSE Put(IF ~Truthy(Get(recipe_data, "recipeId", PyNone))
             THEN Put(recipe_data, "recipeId", id) ELSE recipe_data,
             "source", PyStr(<<"url_processed">>))

\* lines 181-198: the value process_url_async returns, scraped being what
\* parse_recipe_from_url does when awaited; the call of line 183 raises
\* TypeError when a required argument is missing, and every exception ends
\* in the handler of line 196
ScrapeUrl(scraped, id) ==
    IF MissingArguments /= {}
    THEN ErrorDict("Failed to process URL: missing required positional arguments")
    ELSE IF scraped.raised
    THEN ErrorDict("Failed to process URL")
    ELSE FinishUrlRecipe(scraped.value, id)

\* what the caller of main.py passes
ProcUrls == {PyStr(HTTPS \o <<"a">>), PyStr(<<"f", "t", "p", ":", "/", "/", "a">>)}
ProcPrompts == {PyNone, PyStr(<<"v", "e", "g">>)}
ProcUserIds == {PyNone, PyStr(<<"u1">>)}
ProcMimeTypes == {"image/png", "IMAGE/PNG", "text/plain"}
ImageSizes == {1, MAX_IMAGE_UPLOAD_SIZE_BYTES + 1}
\* what the world does: the page of the URL, Cloud Storage, the vision model
ProcResponses ==
    { [kind |-> "ok", page |-> Page(Structured(<<GoodRecipe>>, <<>>), FALSE, <<Article>>)],
      [kind |-> "ok", page |-> Page(Structured(<<>>, <<>>), FALSE, <<Paragraph>>)],
      [kind |-> "Timeout"] }
ProcReplies ==
    { [kind |-> "failure", exc |-> "RuntimeError"],
      [kind |-> "text", repairable |-> TRUE, json |-> PyDict([title |-> PyStr(<<"Stew">>)])] }
StorageOutcomes == {"ok", "client_error", "upload_error"}
VisionTexts ==
    { Obj(Member("title", Str("Stew"))),
      Obj(Member("title", Str("Stew")) \o <<",">>),
      Obj(Member("error", Str("blurry"))),
      <<"{", "}">>,
      <<"[", "1", "]">>,
      <<"x">>,
      Obj(<<"x">>) }
VisionReplies == {[kind |-> "failure"]} \cup [kind : {"text"}, text : VisionTexts]

\* scraped: what parse_recipe_from_url does for this URL, this response
\* and this reply when it is awaited
UrlFrame(u, user_prompt, resp, reply, n) ==
    [fn |-> "process_url_async", pc |-> "configure", url |-> u,
     user_prompt |-> user_prompt, serves |-> resp, reply |-> reply,
     scraped |-> AwaitParse(u, user_prompt, resp, reply, n)]
ImageFrame(image_size, mime_type, prompt, user_id) ==
    [fn |-> "process_image_async", pc |-> "configure", image_size |-> image_size,
     mime_type |-> mime_type, prompt |-> prompt, user_id |-> user_id,
     gcs_uri |-> PyNone, temp_image_uploaded_to_gcs |-> FALSE,
     pending |-> PyNone, uploads |-> 0, generates |-> 0, deletes |-> 0]

\* main.py 44-56: the next request of the process
ProcCall ==
    /\ frame.pc \in {"idle", "done"}
    /\ proc_calls < MaxProcCalls
    /\ \/ \E u \in ProcUrls, p \in ProcPrompts, resp \in ProcResponses, reply \in ProcReplies :
             frame' = UrlFrame(u, p, resp, reply, proc_calls + 1)
       \/ \E size \in ImageSizes, m \in ProcMimeTypes, p \in ProcPrompts, id \in ProcUserIds :
             frame' = ImageFrame(size, m, p, id)
    /\ proc_calls' = proc_calls + 1
    /\ returned' = NoOutcome
    /\ UNCHANGED <<config_module, gemini_configured, main_vars, pure_vars, pair_vars>>

\* lines 106-108 and 175-177
Configure ==
    /\ frame.pc = "configure"
    /\ LET e == ensure_gemini_configured(config_module, gemini_configured)
           refused == IF frame.fn = "process_url_async"
                      THEN ~e.configured /\ Truthy(frame.user_prompt)
                      ELSE ~e.configured
       IN /\ gemini_configured' = e.configured
          /\ CASE e.raised ->
                    /\ frame' = [frame EXCEPT !.pc = "done"]
                    /\ returned' = Raised("AttributeError", "module config has no attribute")
               [] ~e.raised /\ refused ->
                    /\ frame' = [frame EXCEPT !.pc = "done"]
                    /\ returned' = Returned(ErrorDict("Gemini API not configured (API key missing)."))
               [] OTHER ->
                    /\ frame' = [frame EXCEPT !.pc = IF frame.fn = "process_url_async"
                                                     THEN "scrape" ELSE "validate"]
                    /\ UNCHANGED returned
    /\ UNCHANGED <<config_module, proc_calls, main_vars, pure_vars, pair_vars>>

\* lines 179-198
UrlScrape ==
    /\ frame.pc = "scrape"
    /\ frame' = [frame EXCEPT !.pc = "done"]
    /\ returned' = Returned(ScrapeUrl(frame.scraped, Uuid4Hex(proc_calls)))
    /\ UNCHANGED <<config_module, gemini_configured, proc_calls,
                   main_vars, pure_vars, pair_vars>>

\* lines 110-119
ImgValidate ==
    /\ frame.pc = "validate"
    /\ CASE ~Truthy(frame.user_id) ->
              /\ frame' = [frame EXCEPT !.pc = "done"]
              /\ returned' = Returned(ErrorDict("User ID is required."))
         [] Truthy(frame.user_id) /\ ~is_valid_image_mime_type(frame.mime_type) ->
              /\ frame' = [frame EXCEPT !.pc = "done"]
              /\ returned' = Returned(ErrorDict("Unsupported image MIME type"))
         [] OTHER ->
              /\ frame' = [frame EXCEPT !.pc = "upload"]
              /\ UNCHANGED returned
    /\ UNCHANGED <<config_module, gemini_configured, proc_calls,
                   main_vars, pure_vars, pair_vars>>

\* lines 121-126; an exception of the upload goes to the handler of line 164
ImgUpload ==
    /\ frame.pc = "upload"
    /\ \E storage \in StorageOutcomes :
          LET up == upload_image_to_gcs(frame.image_size, frame.user_id,
                                        Extension(frame.mime_type), storage, proc_calls)
          IN frame' =
               IF up.raised
               THEN [frame EXCEPT !.pc = "finally", !.uploads = @ + 1,
                        !.pending = ErrorDict("AI service (Vision) call failed or processing error")]
               ELSE IF ~Truthy(up.value)
               THEN [frame EXCEPT !.pc = "finally", !.uploads = @ + 1, !.gcs_uri = up.value,
                        !.pending = ErrorDict("Failed to upload image to Cloud Storage.")]
               ELSE [frame EXCEPT !.pc = "generate", !.uploads = @ + 1, !.gcs_uri = up.value,
                        !.temp_image_uploaded_to_gcs = TRUE]
    /\ UNCHANGED <<config_module, gemini_configured, returned, proc_calls,
                   main_vars, pure_vars, pair_vars>>

\* lines 127-137: the request is put together and sent, the coroutine
\* waits; genai.Part.from_uri and the constructor of the model may raise
ImgGenerate ==
    /\ frame.pc = "generate"
    /\ \E prepared \in BOOLEAN :
          frame' =
            IF prepared
            THEN [frame EXCEPT !.pc = "awaiting", !.generates = @ + 1]
            ELSE [frame EXCEPT !.pc = "finally",
                     !.pending = ErrorDict("AI service (Vision) call failed or processing error")]
    /\ UNCHANGED <<config_module, gemini_configured, returned, proc_calls,
                   main_vars, pure_vars, pair_vars>>

\* lines 137-165: the reply of the vision model
ImgResume ==
    /\ frame.pc = "awaiting"
    /\ \E reply \in VisionReplies :
          frame' =
            [frame EXCEPT
               !.pc = "finally",
               !.pending =
                  IF reply.kind = "failure"
                  THEN ErrorDict("AI service (Vision) call failed or processing error")
                  ELSE ParseVisionResponse(reply.text, frame.gcs_uri, Uuid4Hex(proc_calls + 1))]
    /\ UNCHANGED <<config_module, gemini_configured, returned, proc_calls,
                   main_vars, pure_vars, pair_vars>>

\* lines 166-171: the finally clause, then the pending return; an exception
\* of the deletion takes the place of the value
ImgFinally ==
    /\ frame.pc = "finally"
    /\ IF FinallyDeletes(frame)
       THEN \E storage \in StorageOutcomes :
               LET d == delete_image_from_gcs(frame.gcs_uri, storage)
               IN /\ frame' = [frame EXCEPT !.pc = "done", !.deletes = @ + 1]
                  /\ returned' = IF d.raised THEN d ELSE Returned(frame.pending)
       ELSE /\ frame' = [frame EXCEPT !.pc = "done"]
            /\ returned' = Returned(frame.pending)
    /\ UNCHANGED <<config_module, gemini_configured, proc_calls,
                   main_vars, pure_vars, pair_vars>>

InitProc ==
    /\ MainInit
    /\ PureIdle
    /\ PairIdle
    /\ config_module \in ConfigModules
    /\ gemini_configured = FALSE
    /\ frame = IdleFrame
    /\ returned = NoOutcome
    /\ proc_calls = 0

NextProc ==
    \/ ProcCall
    \/ Configure
    \/ UrlScrape
    \/ ImgValidate
    \/ ImgUpload
    \/ ImgGenerate
    \/ ImgResume
    \/ ImgFinally

SpecProc == InitProc /\ [][NextProc]_vars

(* ---------------- properties of the two processors --------------------- *)
UrlDone   == frame.fn = "process_url_async" /\ frame.pc = "done"
ImageDone == frame.fn = "process_image_async" /\ frame.pc = "done"

\* the resolution pipeline succeeds for the URL of the call
PipelineSucceeds(f) == ~f.scraped.raised /\ Truthy(f.scraped.value)

\* C25: process_url_async never raises to its caller; it returns the recipe
\* record of the resolution pipeline whenever the pipeline can succeed for
\* the URL, and an error mapping only when a stage of the pipeline failed.
C25_UrlRecordOrStageError ==
    UrlDone =>
      /\ ~returned.raised
      /\ PipelineSucceeds(frame) => returned.value = frame.scraped.value
      /\ HasKey(returned.value, "error") => ~PipelineSucceeds(frame)

\* the upload of the call handed back a URI
UploadSucceeded(f) == Truthy(f.gcs_uri)

\* C26: in process_image_async, once the upload of the temporary image has
\* succeeded the deletion of the uploaded object is attempted exactly once
\* before the function returns, whether it returns a record, a parse-error
\* result or the error of a failed LLM call; when the upload fails or the
\* validation rejects the request neither the LLM call nor a deletion is
\* made.
C26_UploadDeletedOnce ==
    frame.fn = "process_image_async" =>
      /\ frame.deletes <= 1
      /\ frame.deletes = 1 => UploadSucceeded(frame) /\ frame.pc = "done"
      /\ ImageDone /\ UploadSucceeded(frame) => frame.deletes = 1
      /\ ImageDone /\ ~UploadSucceeded(frame) => frame.deletes = 0 /\ frame.generates = 0

\* the reply of the vision model did not parse: an error mapping is
\* returned and the object was deleted
C26_Witness ==
    /\ ImageDone
    /\ UploadSucceeded(frame)
    /\ frame.generates = 1
    /\ frame.deletes = 1
    /\ ~returned.raised
    /\ HasKey(returned.value, "error")

=============================================================================
